---- MODULE Spec2Model ----
(***************************************************************************)
(* Grade pipeline of the school-records backend: Enrollment / Student /    *)
(* GradeSettings rows, the REST write endpoints on them, and the chain of  *)
(* post_save / post_delete signal handlers that recompute pre_final and    *)
(* general_average and re-derive enrollments.                              *)
(*                                                                         *)
(* Decimal scores are integers in hundredths (88.75 is 8875).  A score     *)
(* held by an in-memory model instance also carries whether it is a Python *)
(* float (set by the REST serializer's FloatField) or a Decimal (loaded    *)
(* from the database or cleaned by an admin form): the two do not mix in   *)
(* arithmetic.                                                             *)
(***************************************************************************)
EXTENDS Integers, Sequences, FiniteSets, TLC

VARIABLES db, gs, last

vars == <<db, gs, last>>

\* None in a nullable DecimalField (scores are >= 0).
NULL == -1

\* Nothing there: a field a PATCH body does not contain, a subject without
\* an enrollment.
ABSENT == -2

\* Student.section is NULL.
NoSection == "none"

REQUIRED_SUBJECTS ==
    << "Filipino", "English", "Mathematics", "Science",
       "Araling Panlipunan (AP)", "Edukasyon sa Pagpapakatao (EsP)",
       "Technology and Livelihood Education (TLE)", "MAPEH" >>

Required == {REQUIRED_SUBJECTS[i] : i \in 1..Len(REQUIRED_SUBJECTS)}

(***************************************************************************)
(* The rows the model ranges over: two students (s1 exists from the start, *)
(* s2 once a request creates it), two sections, three users, and ten       *)
(* TeacherClass rows that no modelled request writes.  Section A offers    *)
(* every required subject in year Y1 (classes 1..8, teacher t1); section B *)
(* offers Filipino in Y1 (class 9) and English in Y2 (class 10), teacher   *)
(* t2.                                                                     *)
(***************************************************************************)
Students == {"s1", "s2"}

Sections == {"A", "B"}

Years == {"Y1", "Y2"}

Actors == {"admin", "t1", "t2"}

Role(actor) == IF actor = "admin" THEN "admin" ELSE "teacher"

IsAdminOrRegistrar(actor) == Role(actor) \in {"admin", "registrar"}

TCs == 1..10

TCsubject(tc) ==
    IF tc <= 8 THEN REQUIRED_SUBJECTS[tc]
    ELSE IF tc = 9 THEN "Filipino" ELSE "English"

TCsection(tc) == IF tc <= 8 THEN "A" ELSE "B"

TCyear(tc) == IF tc = 10 THEN "Y2" ELSE "Y1"

TCteacher(tc) == IF tc <= 8 THEN "t1" ELSE "t2"

\* TeacherClass.Meta.ordering (academic_year, section grade, section name,
\* subject name) restricted to one section.
ClassesOfSection(sec) ==
    IF sec = "A" THEN <<5, 6, 2, 1, 8, 3, 4, 7>>
    ELSE IF sec = "B" THEN <<9, 10>>
    ELSE << >>

\* Enrollment.Meta.ordering (student last name, subject name) for one
\* student.  Two enrollments in the same subject (2 and 10, 1 and 9) tie:
\* the database returns them in either order.
EnrollmentOrder(ord) ==
    IF ord = "asc" THEN <<5, 6, 2, 10, 1, 9, 8, 3, 4, 7>>
    ELSE <<5, 6, 10, 2, 9, 1, 8, 3, 4, 7>>

Orders == {"asc", "desc"}

\* Calendar days (UTC dates): timezone.now().date() and the __date lookup
\* both take the date in UTC (TIME_ZONE = 'UTC', USE_TZ = True).
MaxDay == 1

Days == 0..MaxDay

\* Primary keys of ClinicVisit and BehaviorRecord rows.
ClinicIds == 1..2

BehaviorIds == 1..2

\* AttendanceRecord rows are identified by their unique key
\* (teacher_class, student, date); attendance is taken in class 1.
AttendanceTCs == {1}

AttendanceKeys == AttendanceTCs \X Students \X Days

AttendanceStatuses == {"Present", "Absent", "Late"}

AttendanceQuarters == {1, 2}

(***************************************************************************)
(* Rows and in-memory instances.                                           *)
(***************************************************************************)
NoQ == <<NULL, NULL, NULL, NULL>>

NoFloat == <<FALSE, FALSE, FALSE, FALSE>>

\* No Enrollment row for this (student, teacher_class).
NoRow == [ex |-> FALSE, q |-> NoQ, pre_final |-> NULL, fin |-> FALSE]

\* Enrollment.objects.create(student, teacher_class): the field defaults.
EmptyRow == [ex |-> TRUE, q |-> NoQ, pre_final |-> NULL, fin |-> FALSE]

\* An Enrollment instance as loaded from the database: every score a Decimal.
Loaded(row) == [q |-> row.q, fl |-> NoFloat, pre_final |-> row.pre_final,
                fin |-> row.fin]

\* DecimalField.get_db_prep_save of a score the instance holds.  The scores
\* drawn here have two decimals and at most five digits, for which the
\* conversion of a float (create_decimal_from_float with prec = max_digits,
\* then quantize to decimal_places) yields the same hundredths.
ToDb(v) == v

\* The row a full save() of an instance writes.
RowOf(inst) == [ex |-> TRUE,
                q |-> [i \in 1..4 |-> ToDb(inst.q[i])],
                pre_final |-> inst.pre_final,
                fin |-> inst.fin]

\* No Student row with this primary key.
NoStudent == [ex |-> FALSE, section |-> NoSection, school_year |-> "Y1",
              ga |-> NULL, active |-> FALSE]

\* No AttendanceRecord with this key / ClinicVisit / BehaviorRecord with
\* this primary key.
\* att[key] stands for the AttendanceRecord rows with that key: how many
\* there are (n), and the status, the quarter and whether updated_at is
\* later than created_at of the one the key finds.
NoAttendance == [n |-> 0, status |-> "none", quarter |-> 0, updated |-> FALSE]

NoVisit == [ex |-> FALSE, s |-> "-", day |-> 0]

NoBehavior == [ex |-> FALSE, s |-> "-"]

(***************************************************************************)
(* Arithmetic.                                                             *)
(***************************************************************************)
Sum4(q) == q[1] + q[2] + q[3] + q[4]

\* round(Decimal(total) / Decimal(n), 2) on hundredths: Decimal.__round__
\* with ndigits quantizes with ROUND_HALF_EVEN.
RoundHalfEven(total, n) ==
    LET lo == total \div n
        r  == total % n
    IN  IF 2 * r < n THEN lo
        ELSE IF 2 * r > n THEN lo + 1
        ELSE IF lo % 2 = 0 THEN lo ELSE lo + 1

\* The mean rounded half-up to two decimals, on hundredths.
RoundHalfUp(total, n) == (2 * total + n) \div (2 * n)

\* sum(valid_quarters) / Decimal(4) when at least one score is a float:
\* float + Decimal and float / Decimal raise TypeError, which the handler
\* catches, leaving calculated_pre_final = None.
AnyFloat(inst) == \E i \in 1..4 : inst.q[i] # NULL /\ inst.fl[i]

CalculatedPreFinal(inst) ==
    IF \E i \in 1..4 : inst.q[i] = NULL THEN NULL
    ELSE IF AnyFloat(inst) THEN NULL
    ELSE RoundHalfEven(Sum4(inst.q), 4)

\* serializers._calculate_enrollment_final: the mean of the scores that are
\* present, to_integral_value(ROUND_HALF_UP); in hundredths.
PresentQ(q) == {i \in 1..4 : q[i] # NULL}

SumPresent(q) ==
    (IF q[1] # NULL THEN q[1] ELSE 0) + (IF q[2] # NULL THEN q[2] ELSE 0)
  + (IF q[3] # NULL THEN q[3] ELSE 0) + (IF q[4] # NULL THEN q[4] ELSE 0)

CalculateEnrollmentFinal(q) ==
    IF PresentQ(q) = {} THEN NULL
    ELSE LET k == Cardinality(PresentQ(q))
         IN  100 * ((2 * SumPresent(q) + 100 * k) \div (200 * k))

(***************************************************************************)
(* The record the handlers thread through: the Student and Enrollment      *)
(* tables, the events of the request being handled (recomputations run and *)
(* channel-layer messages sent, in order) and the value the last call of   *)
(* calculate_and_update_student_average returned.                          *)
(***************************************************************************)
Ev(k, s, tc, year, x, y, b1, b2) ==
    [k |-> k, s |-> s, tc |-> tc, year |-> year, x |-> x, y |-> y,
     b1 |-> b1, b2 |-> b2]

Emit(d, e) == [d EXCEPT !.ev = Append(@, e)]

Row(d, s, tc) == d.enr[s][tc]

Enrolled(d, s) == {tc \in TCs : Row(d, s, tc).ex}

\* Enrollment.objects.filter(student=student,
\*                           teacher_class__academic_year=academic_year)
InYear(rows, year) == {tc \in TCs : rows[tc].ex /\ TCyear(tc) = year}

\* The enrollments of the year in one subject.
OfSubject(rows, year, sub) ==
    {tc \in TCs : rows[tc].ex /\ TCyear(tc) = year /\ TCsubject(tc) = sub}

\* Required subjects with no enrollment / with several enrollments in the year.
SubjectsMissing(rows, year) ==
    {sub \in Required : OfSubject(rows, year, sub) = {}}

SubjectsDuplicated(rows, year) ==
    {sub \in Required : Cardinality(OfSubject(rows, year, sub)) > 1}

\* next((e for e in enrollments if e.teacher_class.subject.name == name), None)
\* 0 stands for None.
FirstOfSubject(rows, year, sub, ord) ==
    LET seq  == EnrollmentOrder(ord)
        idxs == {i \in 1..Len(seq) :
                    /\ rows[seq[i]].ex
                    /\ TCyear(seq[i]) = year
                    /\ TCsubject(seq[i]) = sub}
    IN  IF idxs = {} THEN 0
        ELSE seq[CHOOSE i \in idxs : \A j \in idxs : i <= j]

\* The pre_final of the first enrollment of each required subject, in the
\* order of REQUIRED_SUBJECTS; ABSENT where the subject has no enrollment.
FirstPreFinals(rows, year, ord) ==
    [i \in 1..Len(REQUIRED_SUBJECTS) |->
        LET tc == FirstOfSubject(rows, year, REQUIRED_SUBJECTS[i], ord)
        IN  IF tc = 0 THEN ABSENT ELSE rows[tc].pre_final]

RECURSIVE SumOver(_, _)
SumOver(f, n) == IF n = 0 THEN 0 ELSE f[n] + SumOver(f, n - 1)

\* A recomputation that averages the required subjects that have a final.
NewAveragePartial(rows, year, ord) ==
    LET pfs  == FirstPreFinals(rows, year, ord)
        have == {i \in DOMAIN pfs : pfs[i] # ABSENT /\ pfs[i] # NULL}
        vals == [i \in DOMAIN pfs |-> IF i \in have THEN pfs[i] ELSE 0]
    IN  IF have = {} THEN NULL
        ELSE RoundHalfEven(SumOver(vals, Len(vals)), Cardinality(have))

\* new_average of calculate_and_update_student_average.
NewAverage(rows, year, ord) ==
    LET present == {TCsubject(tc) : tc \in InYear(rows, year)} \cap Required
        n       == Len(REQUIRED_SUBJECTS)
        pfs     == FirstPreFinals(rows, year, ord)
    IN  IF Cardinality(present) < n THEN NULL
        ELSE IF \E i \in 1..n : pfs[i] = ABSENT \/ pfs[i] = NULL THEN NULL
        ELSE RoundHalfEven(SumOver(pfs, n), n)

(***************************************************************************)
(* The signal handlers.  Each takes the tables as they are when the signal *)
(* is sent and returns them as they are when the handler returns, nested   *)
(* saves and the handlers they trigger included.                           *)
(***************************************************************************)
RECURSIVE EnrollmentPostSave(_, _, _, _, _, _)
RECURSIVE CalculateAndUpdateStudentAverage(_, _, _, _)
RECURSIVE AutoEnrollStudentInClasses(_, _, _)
RECURSIVE EnrollLoop(_, _, _, _, _, _)
RECURSIVE PostDeleteLoop(_, _, _, _, _)
RECURSIVE EnrollmentPostDelete(_, _, _, _)
RECURSIVE StudentPostSave(_, _, _, _, _)

\* An un-enroll step without the is_finalized=False filter.
EnrollmentsToRemoveAny(d, s, sec) ==
    {tc \in Enrolled(d, s) : TCsection(tc) # sec}

\* Enrollments the un-enroll step removes: not finalized, and in a class
\* outside the student's section (all non-finalized ones with no section).
EnrollmentsToRemove(d, s, sec) ==
    {tc \in Enrolled(d, s) : TCsection(tc) # sec /\ ~ Row(d, s, tc).fin}

\* QuerySet.delete(): the rows go in one batch, then post_delete is sent
\* for each collected instance, in the queryset's order.
DeleteEnrollments(d, s, gone, ord) ==
    PostDeleteLoop([d EXCEPT !.enr[s] =
                       [tc \in TCs |-> IF tc \in gone THEN NoRow ELSE @[tc]]],
                   s, gone, 1, ord)

PostDeleteLoop(d, s, gone, i, ord) ==
    IF i > Len(EnrollmentOrder(ord)) \/ d.raised THEN d
    ELSE PostDeleteLoop(
             IF EnrollmentOrder(ord)[i] \in gone
             THEN EnrollmentPostDelete(d, s, EnrollmentOrder(ord)[i], ord)
             ELSE d,
             s, gone, i + 1, ord)

\* The 'enrollment_deleted' message, sent with the average the
\* recomputation returned.
SendEnrollmentDeleted(d, s, tc) ==
    IF d.raised THEN d
    ELSE IF d.sendfault = tc THEN [d EXCEPT !.raised = TRUE]
    ELSE Emit(d, Ev("enrollment_deleted", s, tc, TCyear(tc), NULL, d.ret,
                    FALSE, FALSE))

\* signals.enrollment_post_delete
EnrollmentPostDelete(d, s, tc, ord) ==
    SendEnrollmentDeleted(
        CalculateAndUpdateStudentAverage(d, s, TCyear(tc), ord), s, tc)

\* What one run of calculate_and_update_student_average read and did: the
\* year, the value computed (x), the value stored right after the
\* function's own write (y), whether a required subject was missing (b1) or
\* duplicated (b2) in the enrollments it read, and in tc the number of
\* required subjects whose first enrollment had a pre_final.
CalcEvent(rows, s, year, ord, new, stored) ==
    Ev("calc", s,
       Cardinality({i \in 1..Len(REQUIRED_SUBJECTS) :
                       FirstPreFinals(rows, year, ord)[i] \notin {ABSENT, NULL}}),
       year, new, stored,
       SubjectsMissing(rows, year) # {},
       SubjectsDuplicated(rows, year) # {})

\* if student.general_average != new_average: save it (which sends
\* post_save of Student) and return it; else return the stored one.
StoreAverage(d, s, year, ord, new) ==
    IF d.stu[s].ga # new
    THEN [StudentPostSave(
              Emit([d EXCEPT !.stu[s].ga = new, !.nsaves = @ + 1],
                   CalcEvent(d.enr[s], s, year, ord, new, new)),
              s, TRUE, FALSE, ord)
            EXCEPT !.ret = new]
    ELSE [Emit(d, CalcEvent(d.enr[s], s, year, ord, new, d.stu[s].ga))
            EXCEPT !.ret = d.stu[s].ga]

\* A recomputation that clears the stored average when the lookup fails.
CalculateClearingOnError(d, s, year, ord) ==
    IF d.raised THEN d
    ELSE IF ~ d.stu[s].ex \/ d.fault
    THEN [Emit([d EXCEPT !.stu[s].ga = NULL],
               Ev("calc_error", s, 0, year, NULL, NULL, FALSE, FALSE))
            EXCEPT !.ret = NULL]
    ELSE StoreAverage(d, s, year, ord, NewAverage(d.enr[s], year, ord))

\* signals.calculate_and_update_student_average: Student.objects.get raises
\* when the row is gone or when d.fault is set; both except clauses print
\* and return None.
CalculateAndUpdateStudentAverage(d, s, year, ord) ==
    IF d.raised THEN d
    ELSE IF ~ d.stu[s].ex \/ d.fault
    THEN [Emit(d, Ev("calc_error", s, 0, year, NULL, NULL, FALSE, FALSE))
            EXCEPT !.ret = NULL]
    ELSE StoreAverage(d, s, year, ord, NewAverage(d.enr[s], year, ord))

\* signals._get_sync_dashboard_stats
GetSyncDashboardStats(d) ==
    [totalStudents |-> Cardinality({s \in Students : d.stu[s].ex}),
     activeRecords |-> Cardinality({s \in Students :
                                       d.stu[s].ex /\ d.stu[s].active}),
     clinicVisits |-> Cardinality({c \in ClinicIds :
                                      /\ d.clinic[c].ex
                                      /\ d.clinic[c].day = d.today}),
     behavioralReports |-> Cardinality({b \in BehaviorIds : d.beh[b].ex})]

\* The message to the dashboard_updates group.
DashboardMessage(stats) ==
    [k |-> "dashboard_update", s |-> "-", tc |-> 0, year |-> "-",
     x |-> NULL, y |-> NULL, b1 |-> FALSE, b2 |-> FALSE, stats |-> stats]

\* signals._broadcast_dashboard_stats
BroadcastDashboardStats(d) ==
    Emit(d, DashboardMessage(GetSyncDashboardStats(d)))

\* A student_changed that sends the two student messages only.
StudentChangedWithoutDashboard(d, s, gaOnly, created) ==
    IF gaOnly THEN d
    ELSE Emit(Emit(d,
             Ev("student_update", s, 0, "-", NULL, d.stu[s].ga, created,
                FALSE)),
             Ev("student_list_update", s, 0, "-", NULL, d.stu[s].ga,
                created, FALSE))

\* signals.student_changed: returns at once for a save of general_average
\* alone, else sends the student, list and dashboard messages.
StudentChanged(d, s, gaOnly, created) ==
    IF gaOnly THEN d
    ELSE BroadcastDashboardStats(Emit(Emit(d,
             Ev("student_update", s, 0, "-", NULL, d.stu[s].ga, created,
                FALSE)),
             Ev("student_list_update", s, 0, "-", NULL, d.stu[s].ga,
                created, FALSE)))

\* signals.student_post_delete
StudentPostDelete(d, s) ==
    BroadcastDashboardStats(
        Emit(d, Ev("student_list_update", s, 0, "-", NULL, NULL, FALSE, TRUE)))

\* signals.clinic_visit_post_save: the clinic_updates message, then the
\* dashboard snapshot.
ClinicVisitPostSave(d, c, created) ==
    BroadcastDashboardStats(
        Emit(d, Ev("clinic_update", d.clinic[c].s, c, "-", NULL, NULL,
                   created, FALSE)))

\* signals.clinic_visit_post_delete, for the deleted visit c of student s
ClinicVisitPostDelete(d, c, s) ==
    BroadcastDashboardStats(
        Emit(d, Ev("clinic_update", s, c, "-", NULL, NULL, FALSE, TRUE)))

\* signals.behavior_record_post_save
BehaviorRecordPostSave(d, b, created) ==
    BroadcastDashboardStats(
        Emit(d, Ev("behavior_update", d.beh[b].s, b, "-", NULL, NULL,
                   created, FALSE)))

\* signals.behavior_record_post_delete
BehaviorRecordPostDelete(d, b, s) ==
    BroadcastDashboardStats(
        Emit(d, Ev("behavior_update", s, b, "-", NULL, NULL, FALSE, TRUE)))

\* The two post_save receivers of Student, in the order they are connected:
\* models.auto_enroll_student_in_classes, then signals.student_changed.
StudentPostSave(d, s, gaOnly, created, ord) ==
    StudentChanged(AutoEnrollStudentInClasses(d, s, ord), s, gaOnly, created)

\* Step 2 of auto_enroll_student_in_classes: delete what is to be removed.
UnenrollFromOldClasses(d, s, sec, ord) ==
    IF d.raised THEN d
    ELSE IF EnrollmentsToRemove(d, s, sec) # {}
    THEN DeleteEnrollments(d, s, EnrollmentsToRemove(d, s, sec), ord)
    ELSE d

\* A handler that swallows the exception and keeps what the pass wrote.
CatchWithoutRollback(before, after, s) ==
    IF after.raised
    THEN Emit([after EXCEPT !.raised = FALSE],
              Ev("auto_enroll_error", s, 0, "-", before.nsaves, NULL,
                 FALSE, FALSE))
    ELSE after

\* try: with transaction.atomic(): ... except Exception: print(...).
\* An exception that leaves the block rolls the tables back to what they
\* were when it was entered; messages already sent stay sent.  The event
\* records in x the number of saves the request had made by then.
CatchAutoEnroll(before, after, s) ==
    IF after.raised
    THEN Emit([before EXCEPT !.ev = after.ev, !.nsaves = after.nsaves,
                             !.ret = after.ret],
              Ev("auto_enroll_error", s, 0, "-", before.nsaves, NULL,
                 FALSE, FALSE))
    ELSE after

\* The body of the atomic block of auto_enroll_student_in_classes.
AutoEnrollPass(d, s, ord) ==
    IF d.stu[s].section # NoSection
    THEN UnenrollFromOldClasses(
             EnrollLoop(d, s, ClassesOfSection(d.stu[s].section), 1,
                        Enrolled(d, s), ord),
             s, d.stu[s].section, ord)
    ELSE DeleteEnrollments(d, s, EnrollmentsToRemove(d, s, NoSection), ord)

\* models.auto_enroll_student_in_classes
AutoEnrollStudentInClasses(d, s, ord) ==
    CatchAutoEnroll(d, AutoEnrollPass(d, s, ord), s)

\* for tc in classes_to_enroll: if tc.id not in current_class_ids:
\*     Enrollment.objects.get_or_create(student=instance, teacher_class=tc)
\* current_class_ids is the list read before the first creation.
EnrollLoop(d, s, classes, i, current, ord) ==
    IF i > Len(classes) \/ d.raised THEN d
    ELSE EnrollLoop(
             IF classes[i] \in current \/ Row(d, s, classes[i]).ex THEN d
             ELSE EnrollmentPostSave(
                      [d EXCEPT !.enr[s][classes[i]] = EmptyRow,
                                !.nsaves = @ + 1],
                      s, classes[i], Loaded(EmptyRow), TRUE, ord),
             s, classes, i + 1, current, ord)

\* A handler that saves pre_final whether or not it differs: each save sends
\* post_save again, until the interpreter's recursion limit ends the chain
\* (the limit stands at one save past Cardinality(TCs) + 2).
SavePreFinalAlways(d, s, tc, inst, calc, ord) ==
    IF d.nsaves > Cardinality(TCs) + 2 THEN d
    ELSE EnrollmentPostSave(
             Emit([d EXCEPT !.enr[s][tc].pre_final = calc, !.nsaves = @ + 1],
                  Ev("pre_final_saved", s, tc, TCyear(tc), calc, NULL,
                     FALSE, FALSE)),
             s, tc, [inst EXCEPT !.pre_final = calc], FALSE, ord)

\* if instance.pre_final != calculated_pre_final:
\*     instance.save(update_fields=['pre_final']), and the post_save it sends
SavePreFinal(d, s, tc, inst, calc, ord) ==
    IF inst.pre_final # calc
    THEN EnrollmentPostSave(
             Emit([d EXCEPT !.enr[s][tc].pre_final = calc, !.nsaves = @ + 1],
                  Ev("pre_final_saved", s, tc, TCyear(tc), calc, NULL,
                     FALSE, FALSE)),
             s, tc, [inst EXCEPT !.pre_final = calc], FALSE, ord)
    ELSE d

\* What the tables hold for an Enrollment and its Student when a message
\* about them is sent: pre_final (ABSENT when the row is gone) in x,
\* general_average in y.  Logged right before the message.
DbAtSend(d, s, tc) ==
    Ev("db_at_send", s, tc, TCyear(tc),
       IF Row(d, s, tc).ex THEN Row(d, s, tc).pre_final ELSE ABSENT,
       d.stu[s].ga, Row(d, s, tc).ex, FALSE)

\* The 'enrollment_update' message.  After a change of pre_final the handler
\* first reloads it: refresh_from_db raises DoesNotExist when the row is
\* gone, and the handler returns without sending.
SendEnrollmentUpdate(d, s, tc, inst, created, changed) ==
    IF d.raised THEN d
    ELSE IF changed /\ ~ Row(d, s, tc).ex THEN d
    ELSE IF d.sendfault = tc THEN [d EXCEPT !.raised = TRUE]
    ELSE Emit(Emit(d, DbAtSend(d, s, tc)),
              Ev("enrollment_update", s, tc, TCyear(tc),
                 IF changed THEN Row(d, s, tc).pre_final
                 ELSE inst.pre_final,
                 d.ret, created, changed))

\* A handler that sends its message before it recomputes the average.
EnrollmentPostSaveSendingFirst(d, s, tc, inst, created, ord) ==
    CalculateAndUpdateStudentAverage(
        SendEnrollmentUpdate(
            SavePreFinal(d, s, tc, inst, CalculatedPreFinal(inst), ord),
            s, tc, inst, created, inst.pre_final # CalculatedPreFinal(inst)),
        s, TCyear(tc), ord)

\* signals.enrollment_post_save, sent after the row of inst was written.
EnrollmentPostSave(d, s, tc, inst, created, ord) ==
    SendEnrollmentUpdate(
        CalculateAndUpdateStudentAverage(
            SavePreFinal(d, s, tc, inst, CalculatedPreFinal(inst), ord),
            s, TCyear(tc), ord),
        s, tc, inst, created, inst.pre_final # CalculatedPreFinal(inst))

(***************************************************************************)
(* Requests.  Every action is one request handled to completion: the view, *)
(* the serializer's save and the whole chain of signal handlers.  last     *)
(* records which request it was and how it was answered.                   *)
(***************************************************************************)
Begin(d) == [d EXCEPT !.ev = << >>, !.ret = NULL, !.nsaves = 0]

End(d) == [d EXCEPT !.ret = NULL]

\* Requests handled in one behaviour.
MaxRequests == 3

Answer(op, actor, s, tc, status) ==
    [op |-> op, actor |-> actor, s |-> s, tc |-> tc, status |-> status,
     n |-> last.n + 1]

DataFields(data) == {i \in 1..4 : data[i] # ABSENT}

\* serializer.update(): setattr(instance, field, float(value)) per field sent
Patched(inst, data) ==
    [inst EXCEPT !.q  = [i \in 1..4 |-> IF data[i] # ABSENT THEN data[i]
                                         ELSE @[i]],
                 !.fl = [i \in 1..4 |-> IF data[i] # ABSENT THEN data[i] # NULL
                                         ELSE @[i]]]

\* Enrollment(**validated_data) from a POST body: q1..q4 are required
\* FloatFields that may be null.
Posted(q) == [q |-> q, fl |-> [i \in 1..4 |-> q[i] # NULL],
              pre_final |-> NULL, fin |-> FALSE]

\* views.IsEnrolledTeacherOrAdmin.has_object_permission
HasObjectPermission(actor, tc) ==
    IsAdminOrRegistrar(actor) \/ TCteacher(tc) = actor

\* A check that reads a missing GradeSettings row as "all quarters open".
CheckWithoutSettingsOpen(actor, row, fields, g) ==
    IF row.fin /\ ~ IsAdminOrRegistrar(actor) THEN FALSE
    ELSE IF IsAdminOrRegistrar(actor) THEN TRUE
    ELSE IF ~ g.ex THEN TRUE
    ELSE \A f \in fields : g.open[f]

\* A check that forgets the is_finalized test.
CheckLockStatusOnly(actor, row, fields, g) ==
    IF IsAdminOrRegistrar(actor) THEN TRUE
    ELSE g.ex /\ \A f \in fields : g.open[f]

\* views.EnrollmentRetrieveUpdateDestroyView._check_finalized_and_lock_status
\* TRUE when it returns, FALSE when it raises PermissionDenied.
CheckFinalizedAndLockStatus(actor, row, fields, g) ==
    IF row.fin /\ ~ IsAdminOrRegistrar(actor) THEN FALSE
    ELSE IF IsAdminOrRegistrar(actor) THEN TRUE
    ELSE IF ~ g.ex THEN FALSE
    ELSE \A f \in fields : g.open[f]

\* PUT/PATCH /enrollments/<pk>/
EnrollmentUpdate(actor, s, tc, data, ord) ==
    /\ last.n < MaxRequests
    /\ Row(db, s, tc).ex
    /\ LET row  == Row(db, s, tc)
           inst == Patched(Loaded(row), data)
           ok   == /\ HasObjectPermission(actor, tc)
                   /\ CheckFinalizedAndLockStatus(actor, row, DataFields(data), gs)
       IN  /\ db' = IF ok
                    THEN End(EnrollmentPostSave(
                             [Begin(db) EXCEPT !.enr[s][tc] = RowOf(inst),
                                               !.nsaves = @ + 1],
                             s, tc, inst, FALSE, ord))
                    ELSE Begin(db)
           /\ last' = Answer("update", actor, s, tc,
                             IF ok THEN "ok" ELSE "denied")
    /\ UNCHANGED gs

\* views.EnrollmentRetrieveUpdateDestroyView.destroy, up to perform_destroy
DestroyAllowed(actor, tc, row) ==
    /\ HasObjectPermission(actor, tc)
    /\ ~ (row.fin /\ ~ IsAdminOrRegistrar(actor))

\* DELETE /enrollments/<pk>/
EnrollmentDestroy(actor, s, tc, ord) ==
    /\ last.n < MaxRequests
    /\ Row(db, s, tc).ex
    /\ LET ok == DestroyAllowed(actor, tc, Row(db, s, tc))
       IN  /\ db' = IF ok
                    THEN End(DeleteEnrollments(Begin(db), s, {tc}, ord))
                    ELSE Begin(db)
           /\ last' = Answer("destroy", actor, s, tc,
                             IF ok THEN "ok" ELSE "denied")
    /\ UNCHANGED gs

\* views.EnrollmentListCreateView.perform_create: who may save
CreateAllowed(actor, tc) ==
    \/ IsAdminOrRegistrar(actor)
    \/ Role(actor) = "teacher" /\ TCteacher(tc) = actor

\* The outcome of a POST of a new Enrollment: the serializer's
\* UniqueTogetherValidator (student, teacher_class) runs before the view's
\* perform_create.
CreateEnrollment(op, allowed, actor, s, tc, q, ord) ==
    /\ last.n < MaxRequests
    /\ db.stu[s].ex
    /\ LET inst == Posted(q)
           status == IF Row(db, s, tc).ex THEN "invalid"
                     ELSE IF ~ allowed THEN "denied" ELSE "ok"
       IN  /\ db' = IF status = "ok"
                    THEN End(EnrollmentPostSave(
                             [Begin(db) EXCEPT !.enr[s][tc] = RowOf(inst),
                                               !.nsaves = @ + 1],
                             s, tc, inst, TRUE, ord))
                    ELSE Begin(db)
           /\ last' = Answer(op, actor, s, tc, status)
    /\ UNCHANGED gs

\* POST /enrollments/
EnrollmentCreate(actor, s, tc, q, ord) ==
    CreateEnrollment("create", CreateAllowed(actor, tc), actor, s, tc, q, ord)

\* POST /teacher/class-roster/<class_id>/ : TeacherClassRosterView has no
\* perform_create and create() never calls get_queryset, so every
\* authenticated user may save.
RosterCreate(actor, s, tc, q, ord) ==
    CreateEnrollment("roster_create", TRUE, actor, s, tc, q, ord)

\* The admin site's change / add form of Enrollment: scores are cleaned to
\* Decimal, pre_final is read-only, is_finalized is editable.
AdminSaveEnrollment(s, tc, q, fin, ord) ==
    /\ last.n < MaxRequests
    /\ db.stu[s].ex
    /\ LET row  == Row(db, s, tc)
           inst == [q |-> q, fl |-> NoFloat,
                    pre_final |-> IF row.ex THEN row.pre_final ELSE NULL,
                    fin |-> fin]
       IN  /\ db' = End(EnrollmentPostSave(
                        [Begin(db) EXCEPT !.enr[s][tc] = RowOf(inst),
                                          !.nsaves = @ + 1],
                        s, tc, inst, ~ row.ex, ord))
           /\ last' = Answer("admin_save", "admin", s, tc, "ok")
    /\ UNCHANGED gs

\* PATCH /students/<pk>/ with section_id or school_year
\* The same request while the handler of any Enrollment of class failtc
\* raises at its group_send (0: none does).
StudentUpdateWhile(actor, s, field, value, ord, failtc) ==
    /\ last.n < MaxRequests
    /\ db.stu[s].ex
    /\ LET ok == IsAdminOrRegistrar(actor)
           d1 == IF field = "section"
                 THEN [Begin(db) EXCEPT !.stu[s].section = value,
                                        !.nsaves = @ + 1,
                                        !.sendfault = failtc]
                 ELSE [Begin(db) EXCEPT !.stu[s].school_year = value,
                                        !.nsaves = @ + 1,
                                        !.sendfault = failtc]
       IN  /\ db' = IF ok
                    THEN [End(StudentPostSave(d1, s, FALSE, FALSE, ord))
                            EXCEPT !.sendfault = 0]
                    ELSE Begin(db)
           /\ last' = Answer(IF field = "section" THEN "student_section"
                             ELSE "student_year", actor, s, 0,
                             IF ok THEN "ok" ELSE "denied")
    /\ UNCHANGED gs

\* PATCH /students/<pk>/ with a section or a school_year.
StudentUpdate(actor, s, field, value, ord) ==
    StudentUpdateWhile(actor, s, field, value, ord, 0)

(***************************************************************************)
(* Students, clinic visits, behavior records, attendance.                  *)
(***************************************************************************)
\* POST /students/ : a new Student in section sec (or in none).
StudentCreate(actor, s, sec, ord) ==
    /\ last.n < MaxRequests
    /\ ~ db.stu[s].ex
    /\ db' = IF IsAdminOrRegistrar(actor)
             THEN End(StudentPostSave(
                      [Begin(db) EXCEPT !.stu[s] =
                                   [ex |-> TRUE, section |-> sec,
                                    school_year |-> "Y1", ga |-> NULL,
                                    active |-> TRUE],
                                        !.nsaves = @ + 1],
                      s, FALSE, TRUE, ord))
             ELSE Begin(db)
    /\ last' = Answer("student_create", actor, s, 0,
                      IF IsAdminOrRegistrar(actor) THEN "ok" ELSE "denied")
    /\ UNCHANGED gs

\* views.toggle_student_status: student.save(update_fields=['is_active'])
ToggleStudentStatus(actor, s, ord) ==
    /\ last.n < MaxRequests
    /\ db.stu[s].ex
    /\ db' = IF IsAdminOrRegistrar(actor)
             THEN End(StudentPostSave(
                      [Begin(db) EXCEPT !.stu[s].active = ~ @,
                                        !.nsaves = @ + 1],
                      s, FALSE, FALSE, ord))
             ELSE Begin(db)
    /\ last' = Answer("student_toggle", actor, s, 0,
                      IF IsAdminOrRegistrar(actor) THEN "ok" ELSE "denied")
    /\ UNCHANGED gs

\* The cascade of Student.delete(): AttendanceRecord has no delete signal
\* receiver, its rows go in one query.
DeleteAttendanceOf(d, s) ==
    [d EXCEPT !.att = [key \in AttendanceKeys |->
                          IF key[2] = s THEN NoAttendance ELSE @[key]]]

VisitsOf(d, s) == {c \in ClinicIds : d.clinic[c].ex /\ d.clinic[c].s = s}

BehaviorOf(d, s) == {b \in BehaviorIds : d.beh[b].ex /\ d.beh[b].s = s}

\* post_delete for each collected instance, by descending primary key.
RECURSIVE ClinicPostDeleteLoop(_, _, _, _)
ClinicPostDeleteLoop(d, gone, c, s) ==
    IF c = 0 THEN d
    ELSE ClinicPostDeleteLoop(
             IF c \in gone THEN ClinicVisitPostDelete(d, c, s) ELSE d,
             gone, c - 1, s)

RECURSIVE BehaviorPostDeleteLoop(_, _, _, _)
BehaviorPostDeleteLoop(d, gone, b, s) ==
    IF b = 0 THEN d
    ELSE BehaviorPostDeleteLoop(
             IF b \in gone THEN BehaviorRecordPostDelete(d, b, s) ELSE d,
             gone, b - 1, s)

DeleteVisitsOf(d, s) ==
    ClinicPostDeleteLoop(
        [d EXCEPT !.clinic = [c \in ClinicIds |->
                                 IF c \in VisitsOf(d, s) THEN NoVisit
                                 ELSE @[c]]],
        VisitsOf(d, s), Cardinality(ClinicIds), s)

DeleteBehaviorOf(d, s) ==
    BehaviorPostDeleteLoop(
        [d EXCEPT !.beh = [b \in BehaviorIds |->
                              IF b \in BehaviorOf(d, s) THEN NoBehavior
                              ELSE @[b]]],
        BehaviorOf(d, s), Cardinality(BehaviorIds), s)

DeleteStudentRow(d, s) ==
    StudentPostDelete([d EXCEPT !.stu[s] = NoStudent], s)

\* Collector.delete() for one Student: the rows that reference it go first,
\* model by model (each batch deleted, then its post_delete signals sent),
\* the Student row last.  The instances of the Enrollment batch are taken
\* in the queryset's order.
CollectorDelete(d, s, ord) ==
    DeleteStudentRow(
        DeleteBehaviorOf(
            DeleteVisitsOf(
                DeleteEnrollments(DeleteAttendanceOf(d, s), s,
                                  Enrolled(d, s), ord),
                s),
            s),
        s)

\* The commit that ends the cascade.  The foreign keys are deferred
\* constraints: an Enrollment created during the cascade (by the
\* auto-enrollment a general_average save triggers) references the deleted
\* Student, the commit raises IntegrityError and the tables are as before;
\* the messages have been sent.
CollectorCommit(before, after, s) ==
    IF Enrolled(after, s) # {}
    THEN [before EXCEPT !.ev = after.ev, !.nsaves = after.nsaves]
    ELSE after

\* DELETE /students/<pk>/
StudentDestroy(actor, s, ord) ==
    /\ last.n < MaxRequests
    /\ db.stu[s].ex
    /\ db' = IF IsAdminOrRegistrar(actor)
             THEN End(CollectorCommit(Begin(db),
                                      CollectorDelete(Begin(db), s, ord), s))
             ELSE Begin(db)
    /\ last' = Answer("student_destroy", actor, s, 0,
                      IF ~ IsAdminOrRegistrar(actor) THEN "denied"
                      ELSE IF db'.stu[s].ex THEN "error" ELSE "ok")
    /\ UNCHANGED gs

\* views.IsAdminOrRegistrarOrTeacherOrGuidance
IsAdminOrRegistrarOrTeacherOrGuidance(actor) ==
    Role(actor) \in {"admin", "registrar", "teacher", "guidance_counselor",
                     "nurse"}

\* The primary key the next insert gets.
NextId(ids, used) == CHOOSE i \in ids \ used : \A j \in ids \ used : i <= j

\* A field declared auto_now=True: now on every save.
VisitDateAutoNow(stored, add, today) == today

\* DateTimeField(auto_now_add=True).pre_save: now on insert, else the
\* stored value.
VisitDateOnSave(stored, add, today) == IF add THEN today ELSE stored

\* POST /clinic-visits/
ClinicVisitCreate(actor, s) ==
    /\ last.n < MaxRequests
    /\ db.stu[s].ex
    /\ {c \in ClinicIds : ~ db.clinic[c].ex} # {}
    /\ IsAdminOrRegistrarOrTeacherOrGuidance(actor)
    /\ db' = End(ClinicVisitPostSave(
                 [Begin(db) EXCEPT
                     !.clinic[NextId(ClinicIds,
                                     {c \in ClinicIds : db.clinic[c].ex})] =
                         [ex |-> TRUE, s |-> s,
                          day |-> VisitDateOnSave(0, TRUE, db.today)]],
                 NextId(ClinicIds, {c \in ClinicIds : db.clinic[c].ex}),
                 TRUE))
    /\ last' = Answer("clinic_create", actor, s, 0, "ok")
    /\ UNCHANGED gs

\* PUT/PATCH /clinic-visits/<pk>/
ClinicVisitUpdate(actor, c) ==
    /\ last.n < MaxRequests
    /\ db.clinic[c].ex
    /\ IsAdminOrRegistrarOrTeacherOrGuidance(actor)
    /\ db' = End(ClinicVisitPostSave(
                 [Begin(db) EXCEPT
                     !.clinic[c].day = VisitDateOnSave(@, FALSE, db.today)],
                 c, FALSE))
    /\ last' = Answer("clinic_update", actor, db.clinic[c].s, c, "ok")
    /\ UNCHANGED gs

\* DELETE /clinic-visits/<pk>/
ClinicVisitDestroy(actor, c) ==
    /\ last.n < MaxRequests
    /\ db.clinic[c].ex
    /\ IsAdminOrRegistrarOrTeacherOrGuidance(actor)
    /\ db' = End(ClinicVisitPostDelete(
                 [Begin(db) EXCEPT !.clinic[c] = NoVisit], c, db.clinic[c].s))
    /\ last' = Answer("clinic_destroy", actor, db.clinic[c].s, c, "ok")
    /\ UNCHANGED gs

\* POST /behavior-records/
BehaviorRecordCreate(actor, s) ==
    /\ last.n < MaxRequests
    /\ db.stu[s].ex
    /\ {b \in BehaviorIds : ~ db.beh[b].ex} # {}
    /\ IsAdminOrRegistrarOrTeacherOrGuidance(actor)
    /\ db' = End(BehaviorRecordPostSave(
                 [Begin(db) EXCEPT
                     !.beh[NextId(BehaviorIds,
                                  {b \in BehaviorIds : db.beh[b].ex})] =
                         [ex |-> TRUE, s |-> s]],
                 NextId(BehaviorIds, {b \in BehaviorIds : db.beh[b].ex}),
                 TRUE))
    /\ last' = Answer("behavior_create", actor, s, 0, "ok")
    /\ UNCHANGED gs

\* PUT/PATCH /behavior-records/<pk>/
BehaviorRecordUpdate(actor, b) ==
    /\ last.n < MaxRequests
    /\ db.beh[b].ex
    /\ IsAdminOrRegistrarOrTeacherOrGuidance(actor)
    /\ db' = End(BehaviorRecordPostSave(Begin(db), b, FALSE))
    /\ last' = Answer("behavior_update", actor, db.beh[b].s, b, "ok")
    /\ UNCHANGED gs

\* DELETE /behavior-records/<pk>/
BehaviorRecordDestroy(actor, b) ==
    /\ last.n < MaxRequests
    /\ db.beh[b].ex
    /\ IsAdminOrRegistrarOrTeacherOrGuidance(actor)
    /\ db' = End(BehaviorRecordPostDelete(
                 [Begin(db) EXCEPT !.beh[b] = NoBehavior], b, db.beh[b].s))
    /\ last' = Answer("behavior_destroy", actor, db.beh[b].s, b, "ok")
    /\ UNCHANGED gs

\* views.IsAdminOrRegistrarOrTeacher
IsAdminOrRegistrarOrTeacher(actor) ==
    Role(actor) \in {"admin", "registrar", "teacher"}

\* views.IsAssignedTeacher
IsAssignedTeacher(actor, tc) ==
    IsAdminOrRegistrar(actor) \/ TCteacher(tc) = actor

\* POST /attendance/ : AttendanceListCreateView.  The serializer's
\* UniqueTogetherValidator answers 400 for a key that exists; perform_create
\* lets an admin/registrar or the class's teacher save.  No receiver is
\* connected to AttendanceRecord: nothing is sent.
AttendanceCreate(actor, key, status) ==
    /\ last.n < MaxRequests
    /\ db.stu[key[2]].ex
    /\ LET answer == IF db.att[key] # NoAttendance THEN "invalid"
                     ELSE IF CreateAllowed(actor, key[1]) THEN "ok"
                     ELSE "denied"
       IN  /\ db' = IF answer = "ok"
                    THEN [Begin(db) EXCEPT !.att[key] =
                             [n |-> 1, status |-> status, quarter |-> 1,
                              updated |-> FALSE]]
                    ELSE Begin(db)
           /\ last' = Answer("attendance_create", actor, key[2], key[1],
                             answer)
    /\ UNCHANGED gs

\* PUT/PATCH /attendance/<pk>/ : AttendanceRetrieveUpdateDestroyView
AttendanceUpdate(actor, key, status) ==
    /\ last.n < MaxRequests
    /\ db.att[key] # NoAttendance
    /\ IsAdminOrRegistrarOrTeacher(actor)
    /\ db' = [Begin(db) EXCEPT !.att[key].status = status,
                               !.att[key].updated = TRUE]
    /\ last' = Answer("attendance_update", actor, key[2], key[1], "ok")
    /\ UNCHANGED gs

\* ClassAttendanceView.post: update_or_create per item, in the order of
\* attendance_data; an item whose student does not exist raises, the view
\* answers 500 and the items before it stay saved.  0: no item fails.
FirstFailingItem(d, data) ==
    IF \A i \in 1..Len(data) : d.stu[data[i].s].ex THEN 0
    ELSE CHOOSE i \in 1..Len(data) :
             /\ ~ d.stu[data[i].s].ex
             /\ \A j \in 1..(i - 1) : d.stu[data[j].s].ex

\* A save that always inserts a row.
CreateAlways(row, status, quarter) ==
    [n |-> row.n + 1, status |-> status, quarter |-> quarter,
     updated |-> FALSE]

\* AttendanceRecord.objects.update_or_create(teacher_class, student_id,
\* date, defaults={'status', 'quarter'}) on the rows of one key.
UpdateOrCreate(row, status, quarter) ==
    IF row.n = 0
    THEN [n |-> 1, status |-> status, quarter |-> quarter, updated |-> FALSE]
    ELSE [row EXCEPT !.status = status, !.quarter = quarter,
                     !.updated = TRUE]

RECURSIVE UpdateOrCreateLoop(_, _, _, _, _, _)
UpdateOrCreateLoop(att, tc, day, quarter, data, n) ==
    IF n = 0 THEN att
    ELSE [UpdateOrCreateLoop(att, tc, day, quarter, data, n - 1)
             EXCEPT ![<<tc, data[n].s, day>>] =
                        UpdateOrCreate(@, data[n].status, quarter)]

\* POST /classes/<class_pk>/attendance/
ClassAttendancePost(actor, tc, day, quarter, data) ==
    /\ last.n < MaxRequests
    /\ LET fail == FirstFailingItem(db, data)
           done == IF fail = 0 THEN Len(data) ELSE fail - 1
       IN  /\ db' = IF IsAssignedTeacher(actor, tc)
                    THEN [Begin(db) EXCEPT
                             !.att = UpdateOrCreateLoop(@, tc, day, quarter,
                                                       data, done)]
                    ELSE Begin(db)
           /\ last' = Answer("attendance_post", actor, "-", tc,
                             IF ~ IsAssignedTeacher(actor, tc) THEN "denied"
                             ELSE IF fail = 0 THEN "ok" ELSE "error")
    /\ UNCHANGED gs

\* Midnight (UTC) passes.
AdvanceDay ==
    /\ db.today < MaxDay
    /\ db' = [Begin(db) EXCEPT !.today = @ + 1]
    /\ last' = [Answer("tick", "-", "-", 0, "ok") EXCEPT !.n = last.n]
    /\ UNCHANGED gs

(***************************************************************************)
(* GradeSettings.                                                          *)
(***************************************************************************)
\* gs is the GradeSettings table: ex and open are the row first() returns,
\* more the flags of any further rows, in primary-key order.
NoSettings == [ex |-> FALSE, open |-> <<FALSE, FALSE, FALSE, FALSE>>,
               more |-> << >>]

\* GradeSettings.objects.count()
SettingsRows(g) == IF g.ex THEN 1 + Len(g.more) ELSE 0

\* The INSERT of a GradeSettings row.
InsertSettings(g, open) ==
    IF g.ex THEN [g EXCEPT !.more = Append(@, open)]
    ELSE [g EXCEPT !.ex = TRUE, !.open = open]

\* The DELETE of the row first() returns.
DeleteFirstSettings(g) ==
    IF g.more = << >> THEN NoSettings
    ELSE [ex |-> TRUE, open |-> Head(g.more), more |-> Tail(g.more)]

\* The field defaults: Q1 open, the others locked.
DefaultOpen == <<TRUE, FALSE, FALSE, FALSE>>

\* A create that saves whatever is there already.
SettingsAfterCreateUnguarded(actor, g, open) ==
    IF ~ IsAdminOrRegistrar(actor) THEN [status |-> "denied", g |-> g]
    ELSE [status |-> "ok", g |-> InsertSettings(g, open)]

\* views.GradeSettingsViewSet.create and GradeSettings.save
SettingsAfterCreate(actor, g, open) ==
    IF ~ IsAdminOrRegistrar(actor) THEN [status |-> "denied", g |-> g]
    ELSE IF g.ex THEN [status |-> "invalid", g |-> g]
    ELSE [status |-> "ok", g |-> InsertSettings(g, open)]

\* POST /settings/grade-locks/
GradeSettingsCreate(actor, open) ==
    /\ last.n < MaxRequests
    /\ gs' = SettingsAfterCreate(actor, gs, open).g
    /\ last' = Answer("settings_create", actor, "-", 0,
                      SettingsAfterCreate(actor, gs, open).status)
    /\ db' = Begin(db)

\* GET /settings/grade-locks/ : an admin's list creates the row if missing.
GradeSettingsList(actor) ==
    /\ last.n < MaxRequests
    /\ gs' = IF ~ gs.ex /\ Role(actor) = "admin"
             THEN InsertSettings(gs, DefaultOpen) ELSE gs
    /\ last' = Answer("settings_list", actor, "-", 0, "ok")
    /\ db' = Begin(db)

\* PATCH /settings/grade-locks/<pk>/ with one flag
GradeSettingsUpdate(actor, i, b) ==
    /\ last.n < MaxRequests
    /\ LET status == IF ~ IsAdminOrRegistrar(actor) THEN "denied"
                     ELSE IF ~ gs.ex THEN "notfound" ELSE "ok"
       IN  /\ gs' = IF status = "ok" THEN [gs EXCEPT !.open[i] = b] ELSE gs
           /\ last' = Answer("settings_update", actor, "-", 0, status)
    /\ db' = Begin(db)

\* DELETE /settings/grade-locks/<pk>/
GradeSettingsDestroy(actor) ==
    /\ last.n < MaxRequests
    /\ gs.ex
    /\ gs' = IF IsAdminOrRegistrar(actor) THEN DeleteFirstSettings(gs) ELSE gs
    /\ last' = Answer("settings_destroy", actor, "-", 0,
                      IF IsAdminOrRegistrar(actor) THEN "ok" ELSE "denied")
    /\ db' = Begin(db)

\* Requests on GradeSettings that may run at the same time, and where each
\* is: idle, past the exists() of the view ("checked"), or past the
\* exists() of GradeSettings.save and about to INSERT ("saving").
Workers == {"w1", "w2"}

Idle == [pc |-> "idle", kind |-> "-", actor |-> "-", open |-> DefaultOpen]

\* GradeSettingsViewSet.create up to its own exists(): 403, 400, or on to
\* serializer.save().
CreateViewCheck(w, actor, open) ==
    /\ last.n < MaxRequests
    /\ db.inflight[w].pc = "idle"
    /\ IF IsAdminOrRegistrar(actor) /\ ~ gs.ex
       THEN /\ db' = [Begin(db) EXCEPT !.inflight[w] =
                        [pc |-> "checked", kind |-> "settings_create",
                         actor |-> actor, open |-> open]]
            /\ last' = [Answer("settings_check", actor, "-", 0, "ok")
                          EXCEPT !.n = last.n]
       ELSE /\ db' = Begin(db)
            /\ last' = Answer("settings_create", actor, "-", 0,
                              IF IsAdminOrRegistrar(actor) THEN "invalid"
                              ELSE "denied")
    /\ UNCHANGED gs

\* GradeSettingsViewSet.list up to its exists(): an admin goes on to
\* GradeSettings.objects.create() when no row is there.
ListViewCheck(w, actor) ==
    /\ last.n < MaxRequests
    /\ db.inflight[w].pc = "idle"
    /\ IF Role(actor) = "admin" /\ ~ gs.ex
       THEN /\ db' = [Begin(db) EXCEPT !.inflight[w] =
                        [pc |-> "checked", kind |-> "settings_list",
                         actor |-> actor, open |-> DefaultOpen]]
            /\ last' = [Answer("settings_check", actor, "-", 0, "ok")
                          EXCEPT !.n = last.n]
       ELSE /\ db' = Begin(db)
            /\ last' = Answer("settings_list", actor, "-", 0, "ok")
    /\ UNCHANGED gs

\* GradeSettings.save up to its exists(): ValidationError when a row is
\* there (list swallows it, create does not), else on to the INSERT.
SettingsSaveCheck(w) ==
    /\ db.inflight[w].pc = "checked"
    /\ IF gs.ex
       THEN /\ db' = [Begin(db) EXCEPT !.inflight[w] = Idle]
            /\ last' = Answer(db.inflight[w].kind, db.inflight[w].actor,
                              "-", 0,
                              IF db.inflight[w].kind = "settings_list"
                              THEN "ok" ELSE "error")
       ELSE /\ db' = [Begin(db) EXCEPT !.inflight[w].pc = "saving"]
            /\ last' = [Answer("settings_check", db.inflight[w].actor,
                               "-", 0, "ok") EXCEPT !.n = last.n]
    /\ UNCHANGED gs

\* super().save(): the INSERT, and the response.
SettingsSaveInsert(w) ==
    /\ db.inflight[w].pc = "saving"
    /\ gs' = InsertSettings(gs, db.inflight[w].open)
    /\ db' = [Begin(db) EXCEPT !.inflight[w] = Idle]
    /\ last' = Answer(db.inflight[w].kind, db.inflight[w].actor, "-", 0, "ok")

\* The channels of WebSocket connections, and the groups of the channel
\* layer the consumers add them to.
Channels == {"c1", "c2"}

Groups == {"student_list_updates", "student_s1", "student_s2",
           "dashboard_updates"}

\* django.contrib.auth.models.AnonymousUser
AnonymousUser == "anonymous"

\* A channel with no connection.
NoSocket == [open |-> FALSE, user |-> "-", group |-> "-"]

\* No save is between its commit and its post_save handler.
NoPending == [ex |-> FALSE, s |-> "-", tc |-> 0, inst |-> Loaded(NoRow)]

(***************************************************************************)
(* Initial state: the student was created in section A, which enrolled it  *)
(* in classes 1..8; the admin entered and finalized the grades of classes  *)
(* 2..8; class 1 has no score yet; no GradeSettings row was created.       *)
(***************************************************************************)
SeedRow == [ex |-> TRUE, q |-> <<8800, 9000, 9200, 9000>>,
            pre_final |-> 9000, fin |-> TRUE]

Init ==
    /\ db = [stu |-> [s \in Students |->
                        IF s = "s1"
                        THEN [ex |-> TRUE, section |-> "A",
                              school_year |-> "Y1", ga |-> NULL,
                              active |-> TRUE]
                        ELSE NoStudent],
             enr |-> [s \in Students |->
                        [tc \in TCs |-> IF s # "s1" THEN NoRow
                                        ELSE IF tc = 1 THEN EmptyRow
                                        ELSE IF tc <= 8 THEN SeedRow
                                        ELSE NoRow]],
             att |-> [key \in AttendanceKeys |-> NoAttendance],
             clinic |-> [c \in ClinicIds |-> NoVisit],
             beh |-> [b \in BehaviorIds |-> NoBehavior],
             today |-> 0,
             fault |-> FALSE,
             sendfault |-> 0, raised |-> FALSE,
             pending |-> NoPending,
             inflight |-> [w \in Workers |-> Idle],
             ws |-> [c \in Channels |-> NoSocket],
             groups |-> [g \in Groups |-> {}],
             ev |-> << >>, ret |-> NULL, nsaves |-> 0]
    /\ gs = NoSettings
    /\ last = [op |-> "init", actor |-> "-", s |-> "-", tc |-> 0,
               status |-> "ok", n |-> 0]

\* EnrollmentRetrieveUpdateDestroyView.update up to the commit of
\* serializer.save(): the view opens no transaction and ATOMIC_REQUESTS is
\* not set, so the UPDATE of Model.save() is committed on its own, before
\* post_save is sent.  This state is what another connection reads until
\* the handler's own writes are committed.
UpdateCommitSave(actor, s, tc, data) ==
    /\ last.n < MaxRequests
    /\ ~ db.pending.ex
    /\ Row(db, s, tc).ex
    /\ HasObjectPermission(actor, tc)
    /\ CheckFinalizedAndLockStatus(actor, Row(db, s, tc), DataFields(data), gs)
    /\ db' = [Begin(db) EXCEPT
                 !.enr[s][tc] = RowOf(Patched(Loaded(Row(db, s, tc)), data)),
                 !.nsaves = @ + 1,
                 !.pending = [ex |-> TRUE, s |-> s, tc |-> tc,
                              inst |-> Patched(Loaded(Row(db, s, tc)), data)]]
    /\ last' = [Answer("update_saved", actor, s, tc, "ok") EXCEPT !.n = last.n]
    /\ UNCHANGED gs

\* The rest of the same request: enrollment_post_save on the instance the
\* view saved, then the response.
UpdatePostSave(ord) ==
    /\ db.pending.ex
    /\ db' = End(EnrollmentPostSave(
                 [db EXCEPT !.pending = NoPending],
                 db.pending.s, db.pending.tc, db.pending.inst, FALSE, ord))
    /\ last' = Answer("update", last.actor, db.pending.s, db.pending.tc, "ok")
    /\ UNCHANGED gs

\* The environment: Student.objects.get inside the average recomputation
\* starts or stops raising.
StudentLookupFault ==
    /\ db' = [Begin(db) EXCEPT !.fault = ~ @]
    /\ last' = [Answer("fault", "-", "-", 0, "ok") EXCEPT !.n = last.n]
    /\ UNCHANGED gs

(***************************************************************************)
(* Spec: the grade pipeline under an admin's requests.                     *)
(***************************************************************************)
\* Classes whose enrollment the requests address.
GradeTCs == {1, 9}

\* Score rows an admin form or a POST body carries.
ScoreRows == { NoQ,
               <<9002, 9000, 9000, NULL>>,
               <<9002, 9000, 9000, 9000>> }

\* PATCH bodies: one quarter, a score or null.
Patches == { <<ABSENT, ABSENT, ABSENT, 9000>>,
             <<ABSENT, ABSENT, ABSENT, NULL>> }

Next ==
    \/ \E s \in Students, tc \in GradeTCs, data \in Patches, ord \in Orders :
          EnrollmentUpdate("admin", s, tc, data, ord)
    \/ \E s \in Students, tc \in GradeTCs, ord \in Orders :
          EnrollmentDestroy("admin", s, tc, ord)
    \/ \E s \in Students, tc \in GradeTCs, q \in ScoreRows, ord \in Orders :
          EnrollmentCreate("admin", s, tc, q, ord)
    \/ \E s \in Students, tc \in GradeTCs, q \in ScoreRows, fin \in BOOLEAN,
          ord \in Orders :
          AdminSaveEnrollment(s, tc, q, fin, ord)
    \/ \E s \in Students, sec \in Sections \cup {NoSection}, ord \in Orders :
          StudentUpdate("admin", s, "section", sec, ord)
    \/ \E s \in Students, y \in Years, ord \in Orders :
          StudentUpdate("admin", s, "school_year", y, ord)

Spec == Init /\ [][Next]_vars

(***************************************************************************)
(* SpecAccess: who may write what.  Teachers t1 and t2 and the admin send  *)
(* enrollment and grade-lock requests.  No row written here ever has four  *)
(* scores, so no pre_final exists outside the finalized rows of classes    *)
(* 2..8, general_average stays null and the order of tied enrollments has  *)
(* no effect: one order is drawn.                                          *)
(***************************************************************************)
AccessTCs == {1, 9}

AccessPatches == { <<9000, ABSENT, ABSENT, ABSENT>>,
                   <<ABSENT, 9000, ABSENT, ABSENT>> }

AccessPosts == { <<NULL, 9000, NULL, NULL>> }

AccessAdminRows == { <<9000, NULL, NULL, NULL>> }

AllOpen == <<TRUE, TRUE, TRUE, TRUE>>

Teachers == {"t1", "t2"}

NextAccess ==
    \/ \E s \in Students, a \in Teachers, tc \in AccessTCs,
          data \in AccessPatches :
          EnrollmentUpdate(a, s, tc, data, "asc")
    \/ \E s \in Students, a \in Teachers, tc \in AccessTCs :
          EnrollmentDestroy(a, s, tc, "asc")
    \/ \E s \in Students, a \in Teachers, tc \in AccessTCs, q \in AccessPosts :
          EnrollmentCreate(a, s, tc, q, "asc")
    \/ \E s \in Students, a \in Teachers, tc \in AccessTCs, q \in AccessPosts :
          RosterCreate(a, s, tc, q, "asc")
    \/ \E s \in Students, q \in AccessAdminRows, fin \in BOOLEAN :
          AdminSaveEnrollment(s, 1, q, fin, "asc")
    \/ \E a \in {"admin", "t1"}, open \in {DefaultOpen, AllOpen} :
          GradeSettingsCreate(a, open)
    \/ \E a \in {"admin", "t1"} : GradeSettingsList(a)
    \/ \E i \in 1..4, b \in BOOLEAN : GradeSettingsUpdate("admin", i, b)
    \/ \E a \in {"admin", "t1"} : GradeSettingsDestroy(a)

SpecAccess == Init /\ [][NextAccess]_vars

(***************************************************************************)
(* SpecFault: Enrollment writes while the student lookup of the average    *)
(* recomputation may fail.                                                 *)
(***************************************************************************)
NextFault ==
    \/ StudentLookupFault
    \/ \E tc \in GradeTCs, data \in Patches :
          EnrollmentUpdate("admin", "s1", tc, data, "asc")
    \/ \E tc \in GradeTCs, q \in ScoreRows :
          EnrollmentCreate("admin", "s1", tc, q, "asc")
    \/ \E tc \in GradeTCs, q \in ScoreRows, fin \in BOOLEAN :
          AdminSaveEnrollment("s1", tc, q, fin, "asc")

SpecFault == Init /\ [][NextFault]_vars

(***************************************************************************)
(* SpecCommits: the REST update of an Enrollment as the two commits it     *)
(* makes, with admin saves (one transaction each) around them.  Every      *)
(* state is a committed state of the tables.                               *)
(***************************************************************************)
NextCommits ==
    \/ \E tc \in GradeTCs, data \in Patches :
          UpdateCommitSave("admin", "s1", tc, data)
    \/ UpdatePostSave("asc")
    \/ \E tc \in GradeTCs, q \in ScoreRows, fin \in BOOLEAN :
          AdminSaveEnrollment("s1", tc, q, fin, "asc")

SpecCommits == Init /\ [][NextCommits]_vars

(***************************************************************************)
(* SpecSf10: the SF10 transcript of one student.  Here db holds what the   *)
(* serializer reads: the student's school_year and its enrollments, one    *)
(* per class of Sf10Classes, and ret is the general_average of the         *)
(* response.                                                               *)
(***************************************************************************)
coreLearningAreas ==
    {"Filipino", "English", "Mathematics", "Science",
     "Araling Panlipunan (AP)", "Edukasyon sa Pagpapakatao (EsP)",
     "Technology and Livelihood Education (TLE)"}

mapehComponents == {"Music", "Arts", "Physical Education", "Health"}

\* The classes the student may be enrolled in: Filipino, English, Music,
\* Arts and MAPEH of year Y1, Filipino of Y1 in another section, English of
\* Y2.
Sf10Classes == 1..7

Sf10Subject(c) ==
    IF c \in {1, 6} THEN "Filipino"
    ELSE IF c \in {2, 7} THEN "English"
    ELSE IF c = 3 THEN "Music"
    ELSE IF c = 4 THEN "Arts"
    ELSE "MAPEH"

Sf10Year(c) == IF c = 7 THEN "Y2" ELSE "Y1"

\* Enrollment rows of the transcript: none, one without a score, one whose
\* final is 90, one whose final is 91 (the mean 90.5 of two quarters).
Sf10Rows ==
    { NoRow,
      EmptyRow,
      [EmptyRow EXCEPT !.q = <<9000, 9000, 9000, 9000>>],
      [EmptyRow EXCEPT !.q = <<9000, 9100, NULL, NULL>>] }

RECURSIVE SumOfFinals(_)
SumOfFinals(finals) ==
    IF finals = << >> THEN 0 ELSE Head(finals) + SumOfFinals(Tail(finals))

\* mean.to_integral_value(rounding='ROUND_HALF_UP') of total / n, on
\* hundredths.
ToIntegralHalfUp(total, n) == 100 * ((2 * total + 100 * n) \div (200 * n))

\* The loop of get_general_average over the first n enrollments of the
\* current year: the finals of the subjects of names, None skipped.
RECURSIVE FinalsOf(_, _, _, _)
FinalsOf(rows, year, names, n) ==
    IF n = 0 THEN << >>
    ELSE FinalsOf(rows, year, names, n - 1)
         \o (IF /\ rows[n].ex
                 /\ Sf10Year(n) = year
                 /\ Sf10Subject(n) \in names
                 /\ CalculateEnrollmentFinal(rows[n].q) # NULL
              THEN << CalculateEnrollmentFinal(rows[n].q) >>
              ELSE << >>)

\* all_final_ratings: the core finals, then the MAPEH score if any.
AllFinalRatings(core, mapeh) ==
    IF mapeh # << >>
    THEN Append(core, ToIntegralHalfUp(SumOfFinals(mapeh), Len(mapeh)))
    ELSE core

\* round(sum(all_final_ratings) / Decimal(len(all_final_ratings)), 2)
MeanOfRatings(ratings) ==
    IF ratings = << >> THEN NULL
    ELSE RoundHalfEven(SumOfFinals(ratings), Len(ratings))

\* A general average in which each MAPEH component is a rating of its own.
GetGeneralAverageFlat(rows, year) ==
    MeanOfRatings(
        FinalsOf(rows, year, coreLearningAreas, Len(rows))
        \o FinalsOf(rows, year, mapehComponents, Len(rows)))

\* StudentSf10Serializer.get_general_average
GetGeneralAverage(rows, year) ==
    MeanOfRatings(
        AllFinalRatings(FinalsOf(rows, year, coreLearningAreas, Len(rows)),
                        FinalsOf(rows, year, mapehComponents, Len(rows))))

\* GET of StudentSf10DetailView.
StudentSf10Detail(actor) ==
    /\ last.n < MaxRequests
    /\ db' = [db EXCEPT !.ret = IF IsAdminOrRegistrarOrTeacher(actor)
                                THEN GetGeneralAverage(db.rows, db.school_year)
                                ELSE NULL]
    /\ last' = Answer("sf10", actor, "s1", 0,
                      IF IsAdminOrRegistrarOrTeacher(actor) THEN "ok"
                      ELSE "denied")
    /\ UNCHANGED gs

InitSf10 ==
    /\ db \in [rows : [Sf10Classes -> Sf10Rows], school_year : Years,
                ret : {NULL}]
    /\ gs = NoSettings
    /\ last = [op |-> "init", actor |-> "-", s |-> "-", tc |-> 0,
               status |-> "ok", n |-> 0]

NextSf10 == \E actor \in {"admin"} : StudentSf10Detail(actor)

SpecSf10 == InitSf10 /\ [][NextSf10]_vars

(***************************************************************************)
(* SpecSettings: create, list and delete requests on GradeSettings by two  *)
(* workers, each create and list as the steps it takes between its reads   *)
(* and its INSERT.                                                         *)
(***************************************************************************)
NextSettings ==
    \/ \E w \in Workers, actor \in {"admin", "t1"},
          open \in {DefaultOpen, AllOpen} : CreateViewCheck(w, actor, open)
    \/ \E w \in Workers, actor \in {"admin", "t1"} : ListViewCheck(w, actor)
    \/ \E w \in Workers : SettingsSaveCheck(w)
    \/ \E w \in Workers : SettingsSaveInsert(w)
    \/ GradeSettingsDestroy("admin")

SpecSettings == Init /\ [][NextSettings]_vars

(***************************************************************************)
(* SpecPass: section changes of s1 during which the handler of the         *)
(* Enrollments of one class may raise, between grade entries by the admin. *)
(***************************************************************************)
\* Classes whose Enrollment handler may raise: none, one the pass deletes,
\* two it creates.
FailingTCs == {0, 1, 9, 10}

NextPass ==
    \/ \E sec \in Sections \cup {NoSection}, ord \in Orders,
          failtc \in FailingTCs :
          StudentUpdateWhile("admin", "s1", "section", sec, ord, failtc)
    \/ \E tc \in GradeTCs, q \in ScoreRows, fin \in BOOLEAN :
          AdminSaveEnrollment("s1", tc, q, fin, "asc")

SpecPass == Init /\ [][NextPass]_vars

(***************************************************************************)
(* WebSocket connections.  asgi.py routes every connection through         *)
(* TokenAuthMiddleware to the consumer of its path; a consumer's connect   *)
(* and disconnect handlers each run to completion.                         *)
(***************************************************************************)
\* ?token=... of the connection: absent, one AccessToken refuses, the access
\* token of a user, or the access token of a user whose row is gone.
Tokens == {"none", "invalid", "removed"} \cup Actors

\* middleware.TokenAuthMiddleware.__call__: scope['user']
TokenAuthMiddleware(token) ==
    IF token \in Actors THEN token ELSE AnonymousUser

\* consumers.get_user_role
GetUserRole(user) == IF user = AnonymousUser THEN "none" ELSE Role(user)

\* channel_layer.group_add / group_discard
GroupAdd(d, g, c) == [d EXCEPT !.groups[g] = @ \cup {c}]

GroupDiscard(d, g, c) == [d EXCEPT !.groups[g] = @ \ {c}]

\* self.group_name = g; group_add; accept()
JoinAndAccept(d, c, user, g) ==
    [GroupAdd(d, g, c) EXCEPT
        !.ws[c] = [open |-> TRUE, user |-> user, group |-> g]]

\* StudentListConsumer.connect
StudentListConnect(d, c, user) ==
    IF user = AnonymousUser THEN d
    ELSE IF GetUserRole(user) \notin {"admin", "registrar"} THEN d
    ELSE JoinAndAccept(d, c, user, "student_list_updates")

\* f'student_{self.student_id}'
StudentGroup(sid) == IF sid = "s1" THEN "student_s1" ELSE "student_s2"

\* StudentConsumer.connect: the student_id of the path is there for every
\* connection the route matches.
StudentConnect(d, c, user, sid) ==
    JoinAndAccept(d, c, user, StudentGroup(sid))

\* DashboardConsumer.connect
DashboardConnect(d, c, user) ==
    IF user = AnonymousUser THEN d
    ELSE JoinAndAccept(d, c, user, "dashboard_updates")

\* routing.websocket_urlpatterns, for the three consumers.
WsRoutes == {"students", "student", "dashboard"}

\* A client opens a connection on channel c.
WsConnect(c, route, sid, token) ==
    /\ ~ db.ws[c].open
    /\ db' = IF route = "students"
             THEN StudentListConnect(Begin(db), c, TokenAuthMiddleware(token))
             ELSE IF route = "student"
             THEN StudentConnect(Begin(db), c, TokenAuthMiddleware(token), sid)
             ELSE DashboardConnect(Begin(db), c, TokenAuthMiddleware(token))
    /\ last' = [Answer("ws_connect", TokenAuthMiddleware(token),
                       IF route = "student" THEN sid ELSE "-", 0,
                       IF db'.ws[c].open THEN "ok" ELSE "denied")
                  EXCEPT !.n = last.n]
    /\ UNCHANGED gs

\* disconnect() of the three consumers: group_discard when group_name is set.
WsDisconnect(c) ==
    /\ db.ws[c].open
    /\ db' = [GroupDiscard(Begin(db), db.ws[c].group, c)
                EXCEPT !.ws[c] = NoSocket]
    /\ last' = [Answer("ws_disconnect", db.ws[c].user, "-", 0, "ok")
                  EXCEPT !.n = last.n]
    /\ UNCHANGED gs

NextSockets ==
    \/ \E c \in Channels, route \in WsRoutes, sid \in Students,
          token \in Tokens :
          WsConnect(c, route, sid, token)
    \/ \E c \in Channels : WsDisconnect(c)

SpecSockets == Init /\ [][NextSockets]_vars

(***************************************************************************)
(* Two admin change forms of Enrollment handled at the same time.  Each    *)
(* request runs in its own transaction (ModelAdmin.changeform_view is      *)
(* atomic) under READ COMMITTED: its statements see what is committed and  *)
(* what the request itself wrote.  A request is taken in two steps: up to  *)
(* the reads of calculate_and_update_student_average, then its write and   *)
(* the commit.                                                             *)
(***************************************************************************)
WriterTCs == {1, 2}

WriterRows == { <<9002, 9000, 9000, 9000>>, <<8000, 8000, 8000, 8000>> }

\* The instance the form saved, once the handler has saved its pre_final.
SavedInstance(row, q) ==
    [q |-> q, fl |-> NoFloat,
     pre_final |-> CalculatedPreFinal([q |-> q, fl |-> NoFloat,
                                       pre_final |-> row.pre_final,
                                       fin |-> row.fin]),
     fin |-> row.fin]

\* The request up to new_average: the row and its pre_final written inside
\* the transaction (two Enrollment rows are locked separately), the Student
\* and the student's enrollments read, the average computed from them.
AdminSaveRead(w, s, tc, q, ord) ==
    /\ last.n < MaxRequests
    /\ db.inflight[w].pc = "idle"
    /\ db.stu[s].ex
    /\ Row(db, s, tc).ex
    /\ \A v \in Workers :
          db.inflight[v].pc = "computed" => db.inflight[v].tc # tc
    /\ db' = [Begin(db) EXCEPT !.inflight[w] =
                 [pc |-> "computed", kind |-> "admin_save", actor |-> "admin",
                  open |-> DefaultOpen, s |-> s, tc |-> tc,
                  inst |-> SavedInstance(Row(db, s, tc), q),
                  stored |-> db.stu[s].ga,
                  new |-> NewAverage(
                              [db.enr[s] EXCEPT ![tc] =
                                  RowOf(SavedInstance(Row(db, s, tc), q))],
                              TCyear(tc), ord)]]
    /\ last' = [Answer("admin_read", "admin", s, tc, "ok") EXCEPT !.n = last.n]
    /\ UNCHANGED gs

\* if student.general_average != new_average: save and return it, with the
\* Student the function read (stored) and the average it computed (new).
StoreAverageRead(d, s, year, ord, new, stored) ==
    IF stored # new
    THEN [StudentPostSave(
              Emit([d EXCEPT !.stu[s].ga = new, !.nsaves = @ + 1],
                   CalcEvent(d.enr[s], s, year, ord, new, new)),
              s, TRUE, FALSE, ord)
            EXCEPT !.ret = new]
    ELSE [Emit(d, CalcEvent(d.enr[s], s, year, ord, new, stored))
            EXCEPT !.ret = stored]

\* The rest of the request: the write of general_average, the message, and
\* the commit that makes the row and the average visible.
AdminSaveCommit(w, ord) ==
    /\ db.inflight[w].pc = "computed"
    /\ db' = End(SendEnrollmentUpdate(
                 StoreAverageRead(
                     [Begin(db) EXCEPT
                         !.enr[db.inflight[w].s][db.inflight[w].tc] =
                             RowOf(db.inflight[w].inst),
                         !.nsaves = @ + 2,
                         !.inflight[w] = Idle],
                     db.inflight[w].s, TCyear(db.inflight[w].tc), ord,
                     db.inflight[w].new, db.inflight[w].stored),
                 db.inflight[w].s, db.inflight[w].tc, db.inflight[w].inst,
                 FALSE, TRUE))
    /\ last' = Answer("admin_save", "admin", db.inflight[w].s,
                      db.inflight[w].tc, "ok")
    /\ UNCHANGED gs

NextWriters ==
    \/ \E w \in Workers, tc \in WriterTCs, q \in WriterRows :
          AdminSaveRead(w, "s1", tc, q, "asc")
    \/ \E w \in Workers : AdminSaveCommit(w, "asc")

SpecWriters == Init /\ [][NextWriters]_vars

(***************************************************************************)
(* SpecRecords: students, clinic visits, behavior records and attendance,  *)
(* over two days.  The one grade entry completes the scores of s1, which   *)
(* gives it a general_average.                                             *)
(***************************************************************************)
\* The attendance_data lists a class submission carries.
AttendancePosts ==
    { << [s |-> "s1", status |-> "Present"] >>,
      << [s |-> "s1", status |-> "Late"], [s |-> "s2", status |-> "Absent"] >> }

NextRecords ==
    \/ \E a \in {"admin", "t1"}, sec \in {"B", NoSection} :
          StudentCreate(a, "s2", sec, "asc")
    \/ \E s \in Students : ToggleStudentStatus("admin", s, "asc")
    \/ \E s \in Students : StudentUpdate("admin", s, "section", "B", "asc")
    \/ \E fin \in BOOLEAN :
          AdminSaveEnrollment("s1", 1, <<9002, 9000, 9000, 9000>>, fin, "asc")
    \/ \E a \in {"admin", "t1"}, s \in Students : StudentDestroy(a, s, "asc")
    \/ \E s \in Students : ClinicVisitCreate("t1", s)
    \/ \E c \in ClinicIds : ClinicVisitUpdate("t1", c)
    \/ \E c \in ClinicIds : ClinicVisitDestroy("t1", c)
    \/ \E s \in Students : BehaviorRecordCreate("t1", s)
    \/ \E b \in BehaviorIds : BehaviorRecordUpdate("t1", b)
    \/ \E b \in BehaviorIds : BehaviorRecordDestroy("t1", b)
    \/ \E a \in {"t1", "t2"}, key \in AttendanceKeys :
          AttendanceCreate(a, key, "Present")
    \/ \E key \in AttendanceKeys : AttendanceUpdate("t2", key, "Late")
    \/ \E a \in {"t1", "t2"}, day \in Days, quarter \in AttendanceQuarters,
          data \in AttendancePosts :
          ClassAttendancePost(a, 1, day, quarter, data)
    \/ AdvanceDay

SpecRecords == Init /\ [][NextRecords]_vars

(***************************************************************************)
(* Properties.                                                             *)
(***************************************************************************)
SaveOps == {"update", "create", "roster_create", "admin_save"}

\* The last request saved an Enrollment, and its row is still there.
SavedEnrollment ==
    /\ last.op \in SaveOps
    /\ last.status = "ok"
    /\ Row(db, last.s, last.tc).ex

AllQuarters(row) == \A i \in 1..4 : row.q[i] # NULL

CalcEvents == {i \in 1..Len(db.ev) : db.ev[i].k = "calc"}

\* C1: after an Enrollment save and its post-save handling, the persisted
\* pre_final is non-null exactly when q1..q4 are all non-null.
C1_PreFinalIffAllQuarters ==
    SavedEnrollment =>
        LET row == Row(db, last.s, last.tc)
        IN  (row.pre_final # NULL) <=> AllQuarters(row)

\* C2: whenever calculate_and_update_student_average reads enrollments in
\* which a required subject has none for the academic year, the average it
\* computes and stores is null.
C2_MissingSubjectGivesNull ==
    \A i \in CalcEvents :
        db.ev[i].b1 => db.ev[i].x = NULL /\ db.ev[i].y = NULL

\* C2 witness: an Enrollment was deleted; the recomputation that followed
\* read seven required subjects with a pre_final and none for the eighth,
\* and replaced the stored average by null.
C2_Witness ==
    /\ last.op = "destroy"
    /\ db.ev # << >>
    /\ db.ev[1].k = "calc"
    /\ db.ev[1].b1
    /\ db.ev[1].tc = Len(REQUIRED_SUBJECTS) - 1
    /\ db.ev[1].y = NULL
    /\ db.nsaves >= 1

\* The step is a save that moved student s from one section to another.
C4_Reassigned(s) ==
    /\ last'.op = "student_section"
    /\ last'.status = "ok"
    /\ last'.s = s
    /\ db.stu[s].section \in Sections
    /\ db'.stu[s].section \in Sections
    /\ db'.stu[s].section # db.stu[s].section

\* C4: a save that moves a student from one section to another leaves an
\* Enrollment in every class of the new section, no non-finalized
\* Enrollment in a class outside it, and every finalized Enrollment as it was.
C4_SectionReassignment ==
    [][\A s \in Students :
          C4_Reassigned(s) =>
            /\ \A tc \in TCs :
                  TCsection(tc) = db'.stu[s].section => Row(db', s, tc).ex
            /\ \A tc \in TCs :
                  (Row(db', s, tc).ex /\ TCsection(tc) # db'.stu[s].section)
                      => Row(db', s, tc).fin
            /\ \A tc \in TCs :
                  (Row(db, s, tc).ex /\ Row(db, s, tc).fin)
                      => Row(db', s, tc) = Row(db, s, tc)]_vars

\* C4 witness: the student was moved from A to B: enrolled in both classes
\* of B, the non-finalized enrollment in class 1 of A gone, the finalized
\* one in class 2 of A kept with its scores.
C4_Witness ==
    /\ last.op = "student_section"
    /\ last.status = "ok"
    /\ db.stu["s1"].section = "B"
    /\ Row(db, "s1", 9).ex /\ Row(db, "s1", 10).ex
    /\ ~ Row(db, "s1", 1).ex
    /\ Row(db, "s1", 2) = SeedRow

\* C6: with four scores present, the pre_final stored by the post-save
\* recomputation is their mean rounded half-up to two decimals.  Stated for
\* saves from the admin form, whose scores are Decimals.
C6_PreFinalHalfUp ==
    (SavedEnrollment /\ last.op = "admin_save") =>
        LET row == Row(db, last.s, last.tc)
        IN  AllQuarters(row) => row.pre_final = RoundHalfUp(Sum4(row.q), 4)

\* C7: the final_grade serialized for an Enrollment is null whenever one of
\* q1..q4 is missing.
C7_FinalGradeNullIfMissing ==
    \A s \in Students, tc \in TCs :
        (Row(db, s, tc).ex /\ ~ AllQuarters(Row(db, s, tc)))
            => CalculateEnrollmentFinal(Row(db, s, tc).q) = NULL

\* C8: the recomputed general average is null when a required subject has
\* more than one enrollment in the academic year.
C8_DuplicateSubjectGivesNull ==
    \A i \in CalcEvents : db.ev[i].b2 => db.ev[i].x = NULL

\* C9: after an Enrollment create, update or delete is handled, the stored
\* general_average is the one derived from the enrollments of the student's
\* current school_year.
C9_AverageOfCurrentSchoolYear ==
    (last.op \in SaveOps \cup {"destroy"} /\ last.status = "ok") =>
        db.stu[last.s].ga \in
            {NewAverage(db.enr[last.s], db.stu[last.s].school_year, o) :
                o \in Orders}

\* C3: an update or delete of a finalized Enrollment by an actor who is not
\* admin/registrar is denied and leaves the row as it was.
C3_FinalizedIsFrozen ==
    [][\A s \in Students, tc \in TCs :
          ( /\ last'.op \in {"update", "destroy"}
            /\ last'.s = s /\ last'.tc = tc
            /\ ~ IsAdminOrRegistrar(last'.actor)
            /\ Row(db, s, tc).ex /\ Row(db, s, tc).fin )
          => /\ last'.status = "denied"
             /\ Row(db', s, tc) = Row(db, s, tc)]_vars

\* C3 witness: the class's own teacher was denied an update of a finalized
\* row while all four quarters were open.
C3_Witness ==
    /\ last.op = "update"
    /\ last.actor = TCteacher(last.tc)
    /\ last.status = "denied"
    /\ Row(db, last.s, last.tc).fin
    /\ gs.ex /\ gs.open = AllOpen

\* C5: a create of GradeSettings while a row exists is rejected and leaves
\* the row and its four flags as they were.
C5_SecondSettingsRejected ==
    [][(last'.op = "settings_create" /\ gs.ex)
          => (last'.status # "ok" /\ gs' = gs)]_vars

\* C5 witness: an admin's create was answered 400 with a row in place.
C5_Witness ==
    /\ last.op = "settings_create"
    /\ last.actor = "admin"
    /\ last.status = "invalid"
    /\ gs.ex

\* C10: while quarter N is locked, no enrollment write request of an actor
\* who is not admin/registrar enters or changes a qN score.
C10_LockedQuarterUnwritten ==
    [][( /\ last'.op \in {"update", "create", "roster_create"}
         /\ ~ IsAdminOrRegistrar(last'.actor) )
          => \A s \in Students, tc \in TCs, i \in 1..4 :
                (gs.ex /\ ~ gs.open[i] /\ Row(db', s, tc).ex)
                    => Row(db', s, tc).q[i] = Row(db, s, tc).q[i]]_vars

\* C11: with no GradeSettings row, an Enrollment update by an actor who is
\* not admin/registrar is denied and leaves the row as it was, whatever the
\* request body.
C11_NoSettingsUpdateDenied ==
    [][\A s \in Students, tc \in TCs :
          ( /\ last'.op = "update"
            /\ last'.s = s /\ last'.tc = tc
            /\ ~ IsAdminOrRegistrar(last'.actor)
            /\ ~ gs.ex )
          => /\ last'.status = "denied"
             /\ Row(db', s, tc) = Row(db, s, tc)]_vars

\* C11 witness: the class's own teacher was denied an update of a row that
\* is not finalized, no GradeSettings row existing.
C11_Witness ==
    /\ last.op = "update"
    /\ last.actor = TCteacher(last.tc)
    /\ last.status = "denied"
    /\ Row(db, last.s, last.tc).ex
    /\ ~ Row(db, last.s, last.tc).fin
    /\ ~ gs.ex

\* The 'enrollment_update' messages the last request sent about (s, tc).
EnrollmentUpdatesSent(s, tc) ==
    {i \in 1..Len(db.ev) : /\ db.ev[i].k = "enrollment_update"
                           /\ db.ev[i].s = s
                           /\ db.ev[i].tc = tc}

\* C12: a request that creates or updates an Enrollment sends exactly one
\* enrollment_update message about it, also when the write changes
\* pre_final and the handler saves the row again.
C12_OneNotificationPerWrite ==
    (last.op \in SaveOps /\ last.status = "ok")
        => Cardinality(EnrollmentUpdatesSent(last.s, last.tc)) = 1

\* C13: every enrollment_update message carries the pre_final and the
\* general_average that the Enrollment row and the Student row hold when
\* the message is sent.
C13_PayloadIsPersistedState ==
    \A i \in 1..Len(db.ev) :
        db.ev[i].k = "enrollment_update"
            => /\ db.ev[i].x = db.ev[i - 1].x
               /\ db.ev[i].y = db.ev[i - 1].y

\* The positions of the dashboard_update messages in a log.
DashboardUpdates(ev) == {i \in 1..Len(ev) : ev[i].k = "dashboard_update"}

\* The stats of the last dashboard_update message of a log that has one.
LastDashboardStats(ev) ==
    ev[CHOOSE i \in DashboardUpdates(ev) :
           \A j \in DashboardUpdates(ev) : j <= i].stats

\* C14: every AttendanceRecord create or update, by the single-record
\* endpoints or by a class submission, sends a message to the
\* attendance_updates group.
C14_AttendanceWriteNotifies ==
    (last.op \in {"attendance_create", "attendance_update", "attendance_post"}
       /\ last.status = "ok")
        => \E i \in 1..Len(db.ev) : db.ev[i].k = "attendance_update"

\* Requests that create, update or delete a Student, a ClinicVisit or a
\* BehaviorRecord.
RecordOps ==
    {"student_create", "student_toggle", "student_section", "student_year",
     "student_destroy", "clinic_create", "clinic_update", "clinic_destroy",
     "behavior_create", "behavior_update", "behavior_destroy"}

\* The log of d holds a dashboard snapshot, and the last one has the four
\* counts of the tables of d.
SnapshotIsCurrent(d) ==
    /\ DashboardUpdates(d.ev) # {}
    /\ LET stats == LastDashboardStats(d.ev)
       IN  /\ stats.totalStudents =
                 Cardinality({s \in Students : d.stu[s].ex})
           /\ stats.activeRecords =
                 Cardinality({s \in Students : d.stu[s].ex /\ d.stu[s].active})
           /\ stats.clinicVisits =
                 Cardinality({c \in ClinicIds :
                                 d.clinic[c].ex /\ d.clinic[c].day = d.today})
           /\ stats.behavioralReports =
                 Cardinality({b \in BehaviorIds : d.beh[b].ex})

\* C15 as stated: every write of a Student row (the recomputation's save of
\* general_average included), of a ClinicVisit or of a BehaviorRecord sends
\* a dashboard snapshot with the counts after the write.
C15_EveryWriteSendsSnapshot ==
    [][((last'.op \in RecordOps /\ last'.status = "ok")
          \/ db'.stu # db.stu)
         => SnapshotIsCurrent(db')]_vars

\* C15: every create, update or delete of a Student, ClinicVisit or
\* BehaviorRecord, a save of Student.general_average alone excepted, sends
\* to dashboard_updates a snapshot whose four fields are the counts over
\* the tables after the write.
C15_RecordWriteSendsSnapshot ==
    (last.op \in RecordOps /\ last.status = "ok") => SnapshotIsCurrent(db)

\* C15 witness: a Student with a clinic visit and a behavior record was
\* deleted; each of the three deletions sent a snapshot, the last with the
\* counts after the cascade.
C15_Witness ==
    /\ last.op = "student_destroy"
    /\ last.status = "ok"
    /\ Cardinality(DashboardUpdates(db.ev)) >= 3
    /\ SnapshotIsCurrent(db)

\* C16: a ClinicVisit takes the current day when it is created and keeps it
\* on every later save, and the clinicVisits field of the snapshot a
\* committed request leaves counts exactly the visits whose day is the day
\* the snapshot is computed: a visit of an earlier day is not counted.
C16_ClinicVisitsOfToday ==
    [][/\ \A c \in ClinicIds :
            /\ (db.clinic[c].ex /\ db'.clinic[c].ex)
                  => db'.clinic[c].day = db.clinic[c].day
            /\ (~ db.clinic[c].ex /\ db'.clinic[c].ex)
                  => db'.clinic[c].day = db.today
       /\ (last'.status = "ok" /\ DashboardUpdates(db'.ev) # {})
            => LastDashboardStats(db'.ev).clinicVisits =
                  Cardinality({c \in ClinicIds :
                                  /\ db'.clinic[c].ex
                                  /\ db'.clinic[c].day = db'.today})]_vars

\* C16 witness: on day 1 a visit made on day 0 was updated; it kept day 0
\* and the snapshot sent counts no visit of today.
C16_Witness ==
    /\ last.op = "clinic_update"
    /\ db.today = 1
    /\ db.clinic[last.tc].day = 0
    /\ DashboardUpdates(db.ev) # {}
    /\ LastDashboardStats(db.ev).clinicVisits = 0

\* The stored scores and finalized flags of the Enrollment rows of d.
EnrollmentInputs(d) ==
    [s \in Students |->
        [tc \in TCs |-> [ex  |-> d.enr[s][tc].ex,
                         q   |-> d.enr[s][tc].q,
                         fin |-> d.enr[s][tc].fin]]]

\* The pre_final of every Enrollment and the general_average of every
\* Student of d.
Recomputed(d) ==
    [s \in Students |->
        [pre_final |-> [tc \in TCs |-> d.enr[s][tc].pre_final],
         ga        |-> d.stu[s].ga]]

\* The pre_final and general_average of the last enrollment_update message
\* of a log, or a pair of ABSENT if it has none.
LastEnrollmentUpdate(ev) ==
    LET sent == {i \in 1..Len(ev) : ev[i].k = "enrollment_update"}
    IN  IF sent = {} THEN <<ABSENT, ABSENT>>
        ELSE LET i == CHOOSE i \in sent : \A j \in sent : j <= i
             IN  <<ev[i].x, ev[i].y>>

\* The step saves again the Enrollment the request before it saved, and no
\* score, flag or row of the Enrollment table differs after it.
SecondRun ==
    /\ last.op \in SaveOps /\ last.status = "ok"
    /\ last'.op \in SaveOps /\ last'.status = "ok"
    /\ last'.s = last.s /\ last'.tc = last.tc
    /\ EnrollmentInputs(db') = EnrollmentInputs(db)

\* C17: a second run of the pre_final and general_average recomputation
\* over unchanged Enrollment rows writes neither column again, and the
\* enrollment_update message it sends carries the values of the first.
C17_RecomputationIdempotent ==
    [][SecondRun
         => /\ Recomputed(db') = Recomputed(db)
            /\ LastEnrollmentUpdate(db'.ev) = LastEnrollmentUpdate(db.ev)]_vars

\* C18: when the student lookup of the general_average recomputation
\* fails, the Enrollment write that triggered it is still stored and
\* answered as a success, and no Student's general_average changes.
C18_FailedRecomputationIsSwallowed ==
    [][(/\ last'.op \in SaveOps
        /\ \E i \in 1..Len(db'.ev) : db'.ev[i].k = "calc_error")
         => /\ last'.status = "ok"
            /\ Row(db', last'.s, last'.tc).ex
            /\ \A s \in Students : db'.stu[s].ga = db.stu[s].ga]_vars

\* C18 witness: a student with a stored general_average had an Enrollment
\* saved while the lookup failed; the row was written with its pre_final
\* and the average is still there.
C18_Witness ==
    /\ db.fault
    /\ last.op = "admin_save"
    /\ last.status = "ok"
    /\ \E i \in 1..Len(db.ev) : db.ev[i].k = "calc_error"
    /\ db.stu[last.s].ga # NULL
    /\ Row(db, last.s, last.tc).ex
    /\ Row(db, last.s, last.tc).pre_final # NULL

\* C19: in every committed state, a pre_final that is stored is the
\* pre_final of the q1..q4 stored in the same row: no reader sees the new
\* quarters with the pre_final of the old ones.
C19_NoStalePreFinal ==
    \A s \in Students, tc \in TCs :
        (Row(db, s, tc).ex /\ Row(db, s, tc).pre_final # NULL)
            => Row(db, s, tc).pre_final =
                  CalculatedPreFinal(Loaded(Row(db, s, tc)))

\* The classes of the current year, with a subject of names, in which the
\* student has a final.
Sf10Counted(names) ==
    {c \in Sf10Classes : /\ db.rows[c].ex
                         /\ Sf10Year(c) = db.school_year
                         /\ Sf10Subject(c) \in names
                         /\ PresentQ(db.rows[c].q) # {}}

RECURSIVE Sf10Total(_)
Sf10Total(classes) ==
    IF classes = {} THEN 0
    ELSE LET c == CHOOSE c \in classes : TRUE
         IN  CalculateEnrollmentFinal(db.rows[c].q)
             + Sf10Total(classes \ {c})

\* The one score of the MAPEH cluster: the whole number m with
\* m <= mean + 0.5 < m + 1, mean being that of the cluster finals.
Sf10ClusterScore ==
    LET k     == Cardinality(Sf10Counted(mapehComponents))
        total == Sf10Total(Sf10Counted(mapehComponents))
    IN  CHOOSE m \in {100 * j : j \in 0..100} :
            /\ 2 * k * m <= 2 * total + 100 * k
            /\ 2 * total + 100 * k < 2 * k * (m + 100)

\* C20: the SF10 general average is the mean, to 2 decimals, of the finals
\* of the core subjects of the current year and of one score for the MAPEH
\* cluster (the mean of the Music, Arts, Physical Education and Health
\* finals rounded half-up to a whole number); it is null when there is no
\* such final.
C20_Sf10GeneralAverage ==
    (last.op = "sf10" /\ last.status = "ok")
        => LET core    == Sf10Counted(coreLearningAreas)
               cluster == Sf10Counted(mapehComponents)
               n       == Cardinality(core)
                          + (IF cluster = {} THEN 0 ELSE 1)
               total   == Sf10Total(core)
                          + (IF cluster = {} THEN 0 ELSE Sf10ClusterScore)
           IN  IF n = 0 THEN db.ret = NULL
               ELSE /\ db.ret # NULL
                    /\ 2 * (n * db.ret - total) <= n
                    /\ 2 * (total - n * db.ret) <= n

\* C20 witness: a transcript with a core final and the cluster finals 90
\* and 91, whose mean 90.5 counts as 91.
C20_Witness ==
    /\ last.op = "sf10"
    /\ last.status = "ok"
    /\ Sf10Counted(coreLearningAreas) # {}
    /\ Sf10Counted(mapehComponents) = {3, 4}
    /\ Sf10Total({3, 4}) = 18100
    /\ db.ret # NULL

\* C21: the GradeSettings table never holds more than one row, whatever
\* the interleaving of two creates, or of a create and a list by an admin.
C21_AtMostOneSettingsRow == SettingsRows(gs) <= 1

\* C22: every enrollment_update message of a request comes after a
\* recomputation of the general_average of its student that returned the
\* value the message carries, and, when the handler changed pre_final,
\* that recomputation comes after the save of pre_final.
C22_RecomputeBeforeNotify ==
    \A i \in 1..Len(db.ev) :
        db.ev[i].k = "enrollment_update"
            => \E j \in 1..(i - 1) :
                  /\ db.ev[j].k \in {"calc", "calc_error"}
                  /\ db.ev[j].s = db.ev[i].s
                  /\ db.ev[j].x = db.ev[i].y
                  /\ db.ev[i].b2
                        => \E p \in 1..(j - 1) :
                              /\ db.ev[p].k = "pre_final_saved"
                              /\ db.ev[p].s = db.ev[i].s
                              /\ db.ev[p].tc = db.ev[i].tc

\* C22 witness: a save changed pre_final and the average; the message that
\* followed carries both.
C22_Witness ==
    /\ last.op \in SaveOps
    /\ last.status = "ok"
    /\ \E i \in 1..Len(db.ev) :
          /\ db.ev[i].k = "enrollment_update"
          /\ db.ev[i].b2
          /\ db.ev[i].x # NULL
          /\ db.ev[i].y # NULL

\* C23: the delete of a Student sends one dashboard_update message,
\* however many ClinicVisit and BehaviorRecord rows go with it.
C23_OneSnapshotPerStudentDelete ==
    (last.op = "student_destroy" /\ last.status = "ok")
        => Cardinality(DashboardUpdates(db.ev)) = 1

\* The auto-enroll pass the Student save of the request started (the one
\* entered after that single save) ended in an exception.
TopPassFailed(ev) ==
    \E i \in 1..Len(ev) : ev[i].k = "auto_enroll_error" /\ ev[i].x = 1

\* C24: when the auto-enroll pass of a Student save fails, no Enrollment
\* row differs from before the request, the request is answered as a
\* success, and of the Student rows only the saved section differs.
C24_AutoEnrollAllOrNothing ==
    [][(last'.op = "student_section" /\ TopPassFailed(db'.ev))
         => /\ last'.status = "ok"
            /\ db'.enr = db.enr
            /\ \E sec \in Sections \cup {NoSection} :
                  db'.stu = [db.stu EXCEPT ![last'.s].section = sec]]_vars

\* C24 witness: the student was moved to another section, the pass had
\* sent a message for a class it created when a later handler raised, and
\* the student is in the new section with the enrollments of the old one.
C24_Witness ==
    /\ last.op = "student_section"
    /\ last.status = "ok"
    /\ TopPassFailed(db.ev)
    /\ \E i \in 1..Len(db.ev) :
          db.ev[i].k = "enrollment_update" /\ db.ev[i].b1
    /\ db.stu["s1"].section = "B"
    /\ Enrolled(db, "s1") = 1..8

\* C25: after a class submission (teacher_class, date, quarter, items)
\* each key submitted has one AttendanceRecord, with the status and the
\* quarter of that submission; no key ever has two.
C25_OneRecordPerKey ==
    [][/\ \A key \in AttendanceKeys : db'.att[key].n <= 1
       /\ \A a \in Actors, day \in Days, quarter \in AttendanceQuarters,
             data \in AttendancePosts :
             (ClassAttendancePost(a, 1, day, quarter, data)
                /\ last'.status = "ok")
                => \A i \in 1..Len(data) :
                      /\ db'.att[<<1, data[i].s, day>>].n = 1
                      /\ db'.att[<<1, data[i].s, day>>].status = data[i].status
                      /\ db'.att[<<1, data[i].s, day>>].quarter = quarter]_vars

\* C25 witness: a key that had a record was submitted again, with
\* quarter 2 and status Late: the one record holds both.
C25_Witness ==
    /\ last.op = "attendance_post"
    /\ last.status = "ok"
    /\ db.att[<<1, "s1", 0>>] =
          [n |-> 1, status |-> "Late", quarter |-> 2, updated |-> TRUE]

\* C26: a delete of a Student by an admin or registrar completes: the
\* Student row is gone, and so is every Enrollment, AttendanceRecord,
\* ClinicVisit and BehaviorRecord of the student.
C26_StudentDeleteCompletes ==
    [][(last'.op = "student_destroy" /\ IsAdminOrRegistrar(last'.actor))
         => /\ last'.status = "ok"
            /\ ~ db'.stu[last'.s].ex
            /\ Enrolled(db', last'.s) = {}
            /\ \A key \in AttendanceKeys :
                  key[2] = last'.s => db'.att[key] = NoAttendance
            /\ \A c \in ClinicIds : db'.clinic[c].ex => db'.clinic[c].s # last'.s
            /\ \A b \in BehaviorIds : db'.beh[b].ex => db'.beh[b].s # last'.s]_vars

\* The requests that are a grade update, an activation toggle or a Student
\* save that keeps the section.
KeepsSection ==
    \/ last'.op \in {"update", "student_toggle", "student_year"}
    \/ last'.op = "admin_save" /\ db.enr[last'.s][last'.tc].ex
    \/ /\ last'.op = "student_section"
       /\ db'.stu[last'.s].section = db.stu[last'.s].section

\* C27: a grade update, an activation toggle or a Student save that does
\* not change the section leaves the set of Enrollment rows as it was.
C27_OnlySectionChangeRederives ==
    [][KeepsSection
         => \A s \in Students, tc \in TCs :
               db'.enr[s][tc].ex = db.enr[s][tc].ex]_vars

\* C28: the chain of handlers of one write ends, and the saves in it (the
\* write itself and the nested saves of Enrollment and Student rows) are
\* no more than one per class and two besides.
C28_ChainTerminates == db.nsaves <= Cardinality(TCs) + 2

\* C28 witness: the delete of a student with a general average has run its
\* chain: the average saved once and the classes of the section enrolled
\* again by the pass that save triggered.
C28_Witness ==
    /\ last.op = "student_destroy"
    /\ db.nsaves = Len(ClassesOfSection("A")) + 1

\* C29: when the requests of two writers that updated different Enrollments
\* of a student have both finished, the stored general average is the one
\* the student's rows give.
C29_AverageAfterConcurrentWrites ==
    (last.op = "admin_save" /\ \A w \in Workers : db.inflight[w].pc = "idle")
       => db.stu["s1"].ga = NewAverage(db.enr["s1"], "Y1", "asc")

\* C30: no member of a group is the channel of an unauthenticated
\* connection; the members of student_list_updates are connections of
\* admins and registrars; a member is the channel of a connection that was
\* accepted and has not disconnected.
C30_GroupMembersAuthenticated ==
    /\ \A g \in Groups : \A c \in db.groups[g] :
          db.ws[c].user # AnonymousUser
    /\ \A c \in db.groups["student_list_updates"] :
          GetUserRole(db.ws[c].user) \in {"admin", "registrar"}
    /\ \A g \in Groups : \A c \in db.groups[g] :
          db.ws[c].open /\ db.ws[c].group = g

====
